---- MODULE Spec2Model ----
(***************************************************************************)
(* Verification model of the EU-Legal-Benchmark run orchestrator:          *)
(*   - the generation phase worker fan-out (src/runner/generation.py),     *)
(*   - the orchestrator sequencing (src/runner/orchestrator.py),           *)
(*   - the judging phase item fan-out (src/runner/judging.py),             *)
(*   - the model-call executor, cache and retry loop                       *)
(*     (src/runner/bootstrap.py, run.py, src/cache.py, src/retry.py),      *)
(*   - the per-minute rate limiter (src/runner/rate_limiter.py),           *)
(*   - the judging of one item and its fail-closed aggregation             *)
(*     (src/runner/judging.py, src/judge/judge.py, src/judge/mcq.py).      *)
(* Each component has its own specification over the shared variables.     *)
(***************************************************************************)
EXTENDS Integers, Sequences, FiniteSets, TLC

\* ---------------------------------------------------------------- bounds
NumCandidates == 2
NumExamples == 2
MaxWorkers == 2
\* at most this many items of a run fail in the judging phase
MaxJudgeFailures == 1

VARIABLES
    \* ---- run orchestration (generation.py, orchestrator.py, judging.py)
    response_source,      \* config.run.final_response_source
    responses_by_key,     \* the tasks the preloaded response mapping has an entry for
    response_workers,     \* max(1, config.run.response_parallel_workers)
    judge_workers,        \* max(1, config.run.judge_parallel_workers)
    pc,                   \* position of the coordinator (main) thread
    next_task_idx,        \* generation.py: next_task_idx
    inflight,             \* generation.py: inflight (futures keyed by display_index)
    done,                 \* futures returned by concurrent.futures.wait, not yet iterated
    fstate,               \* state of the future / worker of each generation task
    blocked_candidates,   \* generation.py: blocked_candidates
    generation_results,   \* generation.py: generation_results (display indexes)
    failed_items,         \* generation.py: failed_items
    interrupted,          \* generation.py: interrupted
    okAtInterrupt,        \* history: tasks whose worker had returned a response when the interrupt surfaced
    responses_rows,       \* GenerationPhaseResult.responses_rows
    jstate,               \* state of the future / worker of each judging item
    ordered_results,      \* judging.py: ordered_results (keys)
    judgments_rows,       \* JudgingPhaseResult.judgments_rows
    judge_interrupted,    \* judging.py: interrupted
    summary,              \* the artifacts written by write_run_outputs
    judge_item_results,   \* judging.py: the JudgeItemResult of each item's future
    judge_failed_items,   \* JudgingPhaseResult.failed_items
    \* ---- model-call executor (bootstrap.py, run.py, cache.py, retry.py)
    executor,             \* which executor serves the calls: run_model_call or _run_model_call
    cache_enabled,        \* DiskCache.enabled
    retry_cfg,            \* RetryConfig
    files,                \* the cache directory: one file per key
    cpc,                  \* position of the caller inside the executor
    cur,                  \* arguments and locals of the call in progress
    attempt,              \* retry.py: attempt
    pending,              \* exception caught by with_retries and the delay to sleep
    response,             \* LLMResponse returned by the operation
    events,               \* history: hook calls, invocations and sleeps of the call in progress
    last_call,            \* history: the call that completed last
    prev_call,            \* history: the call that completed before it
    ncalls,               \* history: number of completed calls
    writes,               \* history: the cache entries the executor has written
    \* ---- per-minute rate limiter (rate_limiter.py)
    requests_per_minute,  \* constructor argument
    next_allowed,         \* self._next_allowed
    lock,                 \* self._lock: the thread holding it, 0 when free
    clock,                \* the monotonic clock, in seconds
    lpc,                  \* position of each thread inside wait()
    wait_for,             \* rate_limiter.py: wait_for of each thread
    wake_at,              \* instant at which the sleep of each thread ends
    admissions,           \* history: the instants at which wait() returned, in order
    nwaits,               \* history: number of wait() calls started
    \* ---- backoff computation of with_retries (retry.py)
    b_exc,                \* the exception the operation raised
    b_retry,              \* the RetryConfig
    b_attempt,            \* the attempt that raised
    b_pc,                 \* "raised" before the except branch ran, then "slept" or "reraised"
    b_delay,              \* the argument of time.sleep
    \* ---- judging of one item (judging.py)
    j_example,            \* the example of the item
    j_threshold,          \* config.run.judge_pass_threshold
    j_pc,                 \* position inside _evaluate_judge_item
    j_pending,            \* rubric criteria whose future has not been yielded yet
    j_results,            \* judging.py:286 results, in completion order
    j_item,               \* the JudgeItemResult returned
    j_policy,             \* example.metadata["policy_id"]
    j_call,               \* history: what run_model_call did for the single judge
    \* ---- reconciliation of a base run with a backfill run (scripts/merge_backfill.py)
    m_base,               \* outputs/ of the base run: responses.jsonl, judgments.jsonl
    m_patch,              \* outputs/ of the backfill run
    m_pc,                 \* position inside merge_run_outputs
    m_out,                \* outputs/ of the merged run and the report returned
    \* ---- the files of one cache key, step by step (cache.py)
    c_dir,                \* the cache directory: <key>.json and <key>.tmp
    c_set,                \* the thread that writes: position inside DiskCache.set
    c_get,                \* a thread that reads: position inside DiskCache.get
    c_hist,               \* history: the last two completed set / delete calls
    \* ---- judge calls of the items being judged (judging.py)
    q_rubric,             \* number of rubric criteria of each item, 0 for the single free-form judge
    q_calling,            \* judge calls in flight, per item
    q_returned,           \* judge calls that have returned, per item
    \* ---- one application of apply_weighted_rubric_score (judge/judge.py)
    a_parsed,             \* the JudgeResult passed in
    a_example,            \* the example
    a_threshold,          \* pass_threshold
    a_out,                \* the JudgeResult returned
    a_pc,                 \* "call" before the function ran, then "returned"
    \* ---- two executor calls with one cache key (runner/bootstrap.py, cache.py)
    w_names,              \* the cache directory: the inode each file name refers to, 0 for no file
    w_inodes,             \* the pieces each inode holds
    w_call,               \* the two calls: position, payload, open file and offset, outcome
    \* ---- the run directories merge_run_outputs is called on (scripts/merge_backfill.py)
    d_runs,               \* outputs/ of every run directory under data/runs
    d_args,               \* base_run_dir, backfill_run_dir and out_run_dir of the call
    d_pc                  \* "call" before merge_run_outputs ran, then "returned"

runVars == <<response_source, responses_by_key, response_workers, judge_workers, pc, next_task_idx, inflight, done, fstate,
             blocked_candidates, generation_results, failed_items, interrupted,
             okAtInterrupt, responses_rows, jstate, ordered_results, judgments_rows,
             judge_interrupted, summary, judge_item_results, judge_failed_items>>

callVars == <<executor, cache_enabled, retry_cfg, files, cpc, cur, attempt, pending,
              response, events, last_call, prev_call, ncalls, writes>>

limVars == <<requests_per_minute, next_allowed, lock, clock, lpc, wait_for, wake_at,
             admissions, nwaits>>

backoffVars == <<b_exc, b_retry, b_attempt, b_pc, b_delay>>

itemVars == <<j_example, j_threshold, j_pc, j_pending, j_results, j_item, j_policy, j_call>>

mergeVars == <<m_base, m_patch, m_pc, m_out>>

fileVars == <<c_dir, c_set, c_get, c_hist>>

budgetVars == <<q_rubric, q_calling, q_returned>>

aggVars == <<a_parsed, a_example, a_threshold, a_out, a_pc>>

pairVars == <<w_names, w_inodes, w_call>>

dirVars == <<d_runs, d_args, d_pc>>

vars == <<runVars, callVars, limVars, backoffVars, itemVars, mergeVars, fileVars, budgetVars, aggVars, pairVars, dirVars>>

\* What the actions of one component leave alone
outsideRun == <<callVars, limVars, backoffVars, itemVars, mergeVars, fileVars, budgetVars, aggVars, pairVars, dirVars>>
outsideCall == <<runVars, limVars, backoffVars, itemVars, mergeVars, fileVars, budgetVars, aggVars, pairVars, dirVars>>
outsideLimiter == <<runVars, callVars, backoffVars, itemVars, mergeVars, fileVars, budgetVars, aggVars, pairVars, dirVars>>
outsideBackoff == <<runVars, callVars, limVars, itemVars, mergeVars, fileVars, budgetVars, aggVars, pairVars, dirVars>>
outsideItem == <<runVars, callVars, limVars, backoffVars, mergeVars, fileVars, budgetVars, aggVars, pairVars, dirVars>>
outsideMerge == <<runVars, callVars, limVars, backoffVars, itemVars, fileVars, budgetVars, aggVars, pairVars, dirVars>>
outsideFiles == <<runVars, callVars, limVars, backoffVars, itemVars, mergeVars, budgetVars, aggVars, pairVars, dirVars>>
outsideBudget == <<runVars, callVars, limVars, backoffVars, itemVars, mergeVars, fileVars, aggVars, pairVars, dirVars>>
outsideAggregate == <<runVars, callVars, limVars, backoffVars, itemVars, mergeVars, fileVars, budgetVars, pairVars, dirVars>>
outsidePair == <<runVars, callVars, limVars, backoffVars, itemVars, mergeVars, fileVars, budgetVars, aggVars, dirVars>>
outsideDirs == <<runVars, callVars, limVars, backoffVars, itemVars, mergeVars, fileVars, budgetVars, aggVars, pairVars>>

\* ------------------------------------------------------- generation planning
Candidates == 1..NumCandidates
Examples == 1..NumExamples
total_items == NumCandidates * NumExamples
DisplayIndexes == 1..total_items

\* generation.py _plan_generation_tasks: candidate-major enumeration, display_index from 1
plan_generation_tasks ==
    [i \in DisplayIndexes |->
        [display_index |-> i,
         candidate |-> ((i - 1) \div NumExamples) + 1,
         example |-> ((i - 1) % NumExamples) + 1]]

generation_tasks == plan_generation_tasks

CandidateOf(di) == generation_tasks[di].candidate

Min(a, b) == IF a <= b THEN a ELSE b
Max(a, b) == IF a >= b THEN a ELSE b

\* (mutant: the pool and the fan-out are sized by the number of tasks alone)
generation_worker_count_task_count == Len(generation_tasks)

\* generation.py:216
generation_worker_count == Min(response_workers, Len(generation_tasks))

\* An exception message is modelled by the set of signature phrases it contains.
\* the first signature is spelled with U+2019 in the source
ODT_CURLY == "on-demand throughput isn<U+2019>t supported"
ODT_STRAIGHT == "on-demand throughput isn't supported"
INFERENCE_PROFILE == "inference profile"
BEDROCK_EXCEPTION == "bedrockexception"

\* Messages a failing worker raises here: one that carries only part of a
\* signature (not fatal) and one that carries a whole signature (fatal).
ErrorMessages ==
    { {INFERENCE_PROFILE}, {INFERENCE_PROFILE, BEDROCK_EXCEPTION} }

is_candidate_fatal_error(message) ==
    \/ ODT_CURLY \in message
    \/ ODT_STRAIGHT \in message
    \/ (INFERENCE_PROFILE \in message /\ BEDROCK_EXCEPTION \in message)

SKIPPED_REASON == "Skipped due to earlier fatal provider error for this candidate."

\* generation.py _build_generation_failure_item
build_generation_failure_item(di, reason) ==
    [display_index |-> di,
     candidate_name |-> CandidateOf(di),
     example_id |-> generation_tasks[di].example,
     error |-> reason,
     stage |-> "response"]

\* Outcomes of a generation worker: a response, an Exception with a message,
\* or a KeyboardInterrupt raised inside the worker.
Fut(kind) == [kind |-> kind, message |-> {}]
Raised(message) == [kind |-> "exception", message |-> message]
WorkerOutcomes ==
    {Fut("ok"), Fut("keyboard_interrupt")} \cup {Raised(m) : m \in ErrorMessages}

\* (mutant: only a future that holds a result counts as finished)
FutureFinished_result_only(f) == f.kind = "ok"

FutureFinished(f) == f.kind \in {"ok", "exception", "keyboard_interrupt"}

\* list.sort(key=display_index) on a list of distinct display indexes
RECURSIVE InsertSorted(_, _)
InsertSorted(s, x) ==
    IF s = <<>> THEN <<x>>
    ELSE IF x <= Head(s) THEN <<x>> \o s
    ELSE <<Head(s)>> \o InsertSorted(Tail(s), x)

\* (mutant: the results stay in completion order)
sort_by_display_index_completion_order(s) == s

RECURSIVE sort_by_display_index(_)
sort_by_display_index(s) ==
    IF s = <<>> THEN <<>>
    ELSE InsertSorted(sort_by_display_index(Tail(s)), Head(s))

SeqToSet(s) == {s[i] : i \in 1..Len(s)}

\* ------------------------------------------- judging of one item: results
MaxCriteria == 2

\* A score is the exact fraction num/den (den > 0) of the float of the code
Frac(n, d) == [num |-> n, den |-> d]

Geq(a, b) == a.num * b.den >= b.num * a.den

IsZero(a) == a.num = 0

\* max(0.0, min(1.0, x))
clamp01(a) ==
    IF a.num < 0 THEN Frac(0, 1) ELSE IF a.num > a.den THEN Frac(1, 1) ELSE a

\* keys of JudgeResult.criteria
OVERALL == <<"overall", 0>>
EXACT_MATCH == <<"exact_match", 0>>

\* judging.py:196: str(criterion.get("id", f"criterion_{idx}")).strip()
criterion_id(idx) == <<"criterion", idx>>

NoCriterion == <<"none", 0>>

\* criteria={}
NoCriteria == <<>>

Criteria(key, score) == [k \in {key} |-> score]

\* JudgeResult.raw carries no "deterministic_rubric_aggregation" entry
NoAggregation ==
    [applied |-> FALSE, matched_criteria |-> 0, total_criteria |-> 0,
     weighted_score |-> Frac(0, 1)]

\* types.py:95-101; of raw, the "deterministic_rubric_aggregation" entry
JudgeResult(score, passed, criteria, parse_error) ==
    [score |-> score, passed |-> passed, criteria |-> criteria, parse_error |-> parse_error,
     raw |-> NoAggregation]

NoError == "none"

\* (mutant: the result is passed through whatever its parse_error flag is)
enforce_fail_closed_pass_through(result) == result

\* judging.py:43-46 _enforce_fail_closed
enforce_fail_closed(result) ==
    IF ~result.parse_error
    THEN result
    ELSE [result EXCEPT !.score = Frac(0, 1), !.passed = FALSE]

\* helpers.py:69-78
build_error_judge_result == JudgeResult(Frac(0, 1), FALSE, NoCriteria, TRUE)

\* The text a judge model answers with, by what extract_json_object and
\* parse_judge_output read from it: no JSON object at all, an object with a
\* "score" (and perhaps a boolean "pass"), or an object with a "grade".
JudgeText(kind, score, pass) == [kind |-> kind, score |-> score, pass |-> pass]

Garbage == JudgeText("garbage", Frac(0, 1), "absent")

ScoreTexts ==
    {JudgeText("score", s, p) :
        s \in {Frac(0, 1), Frac(1, 2), Frac(1, 1), Frac(3, 2)}, p \in {"true", "false", "absent"}}

GradeTexts == {JudgeText("grade", Frac(g, 1), "absent") : g \in {0, 1}}

\* judge.py:183-247
parse_judge_output(raw_text, fallback_pass_threshold) ==
    LET parse_error == raw_text.kind = "garbage"
        score_raw ==
            IF parse_error THEN Frac(0, 1)
            ELSE IF raw_text.kind = "score" THEN raw_text.score
            ELSE IF Geq(raw_text.score, Frac(1, 2)) THEN Frac(1, 1) ELSE Frac(0, 1)
        score == clamp01(score_raw)
        passed ==
            IF parse_error THEN FALSE
            ELSE IF raw_text.pass = "true" THEN TRUE
            ELSE IF raw_text.pass = "false" THEN FALSE
            ELSE Geq(score, fallback_pass_threshold)
    IN  JudgeResult(score, passed, Criteria(OVERALL, score), parse_error)

\* What run_model_call does for a judge request: it returns a text or raises
CallOutcome(raises, text, error) == [raises |-> raises, text |-> text, error |-> error]

JUDGE_CALL_ERROR == "RuntimeError: judge unavailable"

\* no judge call was made
NoCallOutcome == CallOutcome(FALSE, JudgeText("none", Frac(0, 1), "absent"), NoError)

CallOutcomes(texts) ==
    {CallOutcome(FALSE, t, NoError) : t \in texts}
        \cup {CallOutcome(TRUE, Garbage, JUDGE_CALL_ERROR)}

\* _run_judge_call reporting an unparseable output as an error of the call
run_judge_call_parse_error_is_failure(outcome, pass_threshold) ==
    IF outcome.raises
    THEN [parsed |-> build_error_judge_result, error |-> outcome.error]
    ELSE LET parsed == parse_judge_output(outcome.text, pass_threshold)
         IN  [parsed |-> parsed,
              error |-> IF parsed.parse_error THEN JUDGE_CALL_ERROR ELSE NoError]

\* judging.py:49-101 _run_judge_call: an exception of the call or of the
\* parser becomes an error result, the call never raises
run_judge_call(outcome, pass_threshold) ==
    IF outcome.raises
    THEN [parsed |-> build_error_judge_result, error |-> outcome.error]
    ELSE [parsed |-> parse_judge_output(outcome.text, pass_threshold), error |-> NoError]

\* judging.py:104-130
build_judge_failure_item(display_index, error, cid) ==
    [display_index |-> display_index, stage |-> "judge", error |-> error,
     criterion_id |-> cid]

\* judge.py:69-83: <<score, was_matched>>
resolve_rubric_criterion_score(criteria, criterion_index, fallback_score) ==
    IF DOMAIN criteria = {}
    THEN <<clamp01(fallback_score), FALSE>>
    ELSE IF criterion_id(criterion_index) \in DOMAIN criteria
    THEN <<clamp01(criteria[criterion_id(criterion_index)]), TRUE>>
    ELSE <<clamp01(fallback_score), FALSE>>

\* judge.py:280: sum(weight * score) over the first idx criteria
RECURSIVE raw_sum(_, _, _)
raw_sum(rubric, criteria, idx) ==
    IF idx = 0
    THEN Frac(0, 1)
    ELSE LET s == resolve_rubric_criterion_score(criteria, idx, Frac(0, 1))[1]
             rest == raw_sum(rubric, criteria, idx - 1)
         IN  Frac(rest.num * s.den + rubric[idx] * s.num * rest.den, rest.den * s.den)

\* judge.py:281-282
RECURSIVE min_raw(_, _)
min_raw(rubric, idx) ==
    IF idx = 0 THEN 0 ELSE min_raw(rubric, idx - 1) + Min(0, rubric[idx])

RECURSIVE max_raw(_, _)
max_raw(rubric, idx) ==
    IF idx = 0 THEN 0 ELSE max_raw(rubric, idx - 1) + Max(0, rubric[idx])

\* apply_weighted_rubric_score giving full marks when max_raw <= min_raw
apply_weighted_rubric_score_degenerate_full(parsed, example, pass_threshold) ==
    IF example.judge_mode # "rubric" THEN parsed
    ELSE IF Len(example.rubric) = 0 THEN parsed
    ELSE IF DOMAIN parsed.criteria = {} THEN parsed
    ELSE
        LET n == Len(example.rubric)
            matched ==
                Cardinality({idx \in 1..n :
                    resolve_rubric_criterion_score(parsed.criteria, idx, Frac(0, 1))[2]})
            sum == raw_sum(example.rubric, parsed.criteria, n)
            lo == min_raw(example.rubric, n)
            hi == max_raw(example.rubric, n)
            weighted_score ==
                IF hi <= lo
                THEN Frac(1, 1)
                ELSE clamp01(Frac(sum.num - lo * sum.den, (hi - lo) * sum.den))
        IN  IF matched = 0
            THEN parsed
            ELSE [parsed EXCEPT !.score = weighted_score,
                                !.passed = Geq(weighted_score, pass_threshold),
                                !.raw = [applied |-> TRUE,
                                         matched_criteria |-> matched,
                                         total_criteria |-> n,
                                         weighted_score |-> weighted_score]]

\* apply_weighted_rubric_score dividing the raw sum by the range without
\* shifting it by min_raw
apply_weighted_rubric_score_unshifted(parsed, example, pass_threshold) ==
    IF example.judge_mode # "rubric" THEN parsed
    ELSE IF Len(example.rubric) = 0 THEN parsed
    ELSE IF DOMAIN parsed.criteria = {} THEN parsed
    ELSE
        LET n == Len(example.rubric)
            matched ==
                Cardinality({idx \in 1..n :
                    resolve_rubric_criterion_score(parsed.criteria, idx, Frac(0, 1))[2]})
            sum == raw_sum(example.rubric, parsed.criteria, n)
            lo == min_raw(example.rubric, n)
            hi == max_raw(example.rubric, n)
            weighted_score ==
                IF hi <= lo
                THEN clamp01(parsed.score)
                ELSE clamp01(Frac(sum.num, (hi - lo) * sum.den))
        IN  IF matched = 0
            THEN parsed
            ELSE [parsed EXCEPT !.score = weighted_score,
                                !.passed = Geq(weighted_score, pass_threshold),
                                !.raw = [applied |-> TRUE,
                                         matched_criteria |-> matched,
                                         total_criteria |-> n,
                                         weighted_score |-> weighted_score]]

\* apply_weighted_rubric_score aggregating also when no criterion was matched
apply_weighted_rubric_score_unmatched_counts(parsed, example, pass_threshold) ==
    IF example.judge_mode # "rubric" THEN parsed
    ELSE IF Len(example.rubric) = 0 THEN parsed
    ELSE IF DOMAIN parsed.criteria = {} THEN parsed
    ELSE
        LET n == Len(example.rubric)
            matched ==
                Cardinality({idx \in 1..n :
                    resolve_rubric_criterion_score(parsed.criteria, idx, Frac(0, 1))[2]})
            sum == raw_sum(example.rubric, parsed.criteria, n)
            lo == min_raw(example.rubric, n)
            hi == max_raw(example.rubric, n)
            weighted_score ==
                IF hi <= lo
                THEN clamp01(parsed.score)
                ELSE clamp01(Frac(sum.num - lo * sum.den, (hi - lo) * sum.den))
        IN  [parsed EXCEPT !.score = weighted_score,
                           !.passed = Geq(weighted_score, pass_threshold),
                           !.raw = [applied |-> TRUE,
                                    matched_criteria |-> matched,
                                    total_criteria |-> n,
                                    weighted_score |-> weighted_score]]

\* judge.py:250-306; example.rubric is the sequence of the criteria's weights
apply_weighted_rubric_score(parsed, example, pass_threshold) ==
    IF example.judge_mode # "rubric" THEN parsed
    ELSE IF Len(example.rubric) = 0 THEN parsed
    ELSE IF DOMAIN parsed.criteria = {} THEN parsed
    ELSE
        LET n == Len(example.rubric)
            matched ==
                Cardinality({idx \in 1..n :
                    resolve_rubric_criterion_score(parsed.criteria, idx, Frac(0, 1))[2]})
            sum == raw_sum(example.rubric, parsed.criteria, n)
            lo == min_raw(example.rubric, n)
            hi == max_raw(example.rubric, n)
            weighted_score ==
                IF hi <= lo
                THEN clamp01(parsed.score)
                ELSE clamp01(Frac(sum.num - lo * sum.den, (hi - lo) * sum.den))
        IN  IF matched = 0
            THEN parsed
            ELSE [parsed EXCEPT !.score = weighted_score,
                                !.passed = Geq(weighted_score, pass_threshold),
                                !.raw = [applied |-> TRUE,
                                         matched_criteria |-> matched,
                                         total_criteria |-> n,
                                         weighted_score |-> weighted_score]]

\* data/policies.py:85 DEFAULT_POLICY, judge/policies/lexam_policy.py:45
POLICY_DEFAULT == "default_v1"
POLICY_LEXAM_OQ == "lexam_oq_v1"

Policies == {POLICY_DEFAULT, POLICY_LEXAM_OQ}

\* lexam_policy.py:98-100: Decimal.quantize(Decimal("0.1"), ROUND_HALF_UP) of
\* a score that is not negative
quantize(score) == Frac((20 * score.num + score.den) \div (2 * score.den), 10)

\* default_policy.py:92-99 DefaultJudgePolicyHandler.postprocess_judge_result
default_postprocess_judge_result(result, example, pass_threshold) == result

\* (mutant: the LEXam handler keeps the pass label of the parsed result)
lexam_postprocess_judge_result_keeps_pass(result, example, pass_threshold) ==
    IF example.judge_mode # "reference"
    THEN result
    ELSE LET quantized == clamp01(quantize(result.score))
         IN  [result EXCEPT !.score = quantized,
                            !.criteria = IF DOMAIN result.criteria \subseteq {OVERALL}
                                         THEN Criteria(OVERALL, quantized)
                                         ELSE result.criteria]

\* lexam_policy.py:89-111 LEXamJudgePolicyHandler.postprocess_judge_result
lexam_postprocess_judge_result(result, example, pass_threshold) ==
    IF example.judge_mode # "reference"
    THEN result
    ELSE LET quantized == clamp01(quantize(result.score))
         IN  [result EXCEPT !.score = quantized,
                            !.passed = Geq(quantized, pass_threshold),
                            !.criteria = IF DOMAIN result.criteria \subseteq {OVERALL}
                                         THEN Criteria(OVERALL, quantized)
                                         ELSE result.criteria]

\* apply_policy_score_postprocessing is imported from src/judge/judge.py
\* (bootstrap.py:9-16) and called at judging.py:620-624, but it is not defined
\* there.  By its test (tests/judge/test_lexam_parity.py:91-128) it hands the
\* result to postprocess_judge_result of the handler that
\* get_judge_policy_handler (registry.py:18-20) gives for
\* example.metadata["policy_id"].
apply_policy_score_postprocessing(parsed, example, policy_id, pass_threshold) ==
    IF policy_id = POLICY_LEXAM_OQ
    THEN lexam_postprocess_judge_result(parsed, example, pass_threshold)
    ELSE default_postprocess_judge_result(parsed, example, pass_threshold)

\* row_builders.py:94-135: the fields of the judgment row the result decides,
\* and for a rubric item the call details kept under raw_judge
build_judgment_row(judge_name, result, calls) ==
    [judge_name |-> judge_name, score |-> result.score, pass |-> result.passed,
     parse_error |-> result.parse_error, criteria |-> result.criteria, calls |-> calls]

\* contracts.py:73-77
JudgeItemResult(judgment_row, item_failures) ==
    [judgment_row |-> judgment_row, failed_items |-> item_failures]

NoItemResult ==
    JudgeItemResult(build_judgment_row("none", JudgeResult(Frac(0, 1), FALSE, NoCriteria, FALSE),
                                       <<>>), <<>>)

\* What the candidate answered to a multiple-choice question, by what
\* _parse_answer_and_reasoning reads: no JSON object, an answer that is one of
\* the expected choices, another answer
McqTexts == {"garbage", "right", "wrong"}

\* mcq.py:51-85 (with metadata.correct_choice_ids present)
grade_mcq_output(candidate_text, pass_threshold) ==
    LET parse_error == candidate_text = "garbage"
        exact_match == IF candidate_text = "right" THEN Frac(1, 1) ELSE Frac(0, 1)
    IN  JudgeResult(exact_match, Geq(exact_match, pass_threshold),
                    Criteria(EXACT_MATCH, exact_match), parse_error)

\* judging.py:133-179
handle_mcq_judgment(candidate_text, pass_threshold) ==
    JudgeItemResult(
        build_judgment_row("deterministic_mcq",
                           enforce_fail_closed(grade_mcq_output(candidate_text, pass_threshold)),
                           <<>>),
        <<>>)

\* judging.py:573-672
handle_single_judge(display_index, example, pass_threshold, outcome, policy_id) ==
    LET judge_call == run_judge_call(outcome, pass_threshold)
        weighted == apply_weighted_rubric_score(judge_call.parsed, example, pass_threshold)
        parsed == enforce_fail_closed(
                      apply_policy_score_postprocessing(weighted, example, policy_id,
                                                        pass_threshold))
    IN  JudgeItemResult(
            build_judgment_row("primary_judge", parsed, <<>>),
            IF judge_call.error # NoError
            THEN <<build_judge_failure_item(display_index, judge_call.error, NoCriterion)>>
            ELSE <<>>)

\* (mutant: the error judgment is returned without a failure item)
build_unexpected_judge_item_result_without_failure(display_index, error) ==
    JudgeItemResult(
        build_judgment_row("judge_phase_error", enforce_fail_closed(build_error_judge_result),
                           <<>>),
        <<>>)

\* judging.py:675-740
build_unexpected_judge_item_result(display_index, error) ==
    JudgeItemResult(
        build_judgment_row("judge_phase_error", enforce_fail_closed(build_error_judge_result),
                           <<>>),
        <<build_judge_failure_item(display_index, error, NoCriterion)>>)

\* judging.py:182-250 _run_rubric_criterion
run_rubric_criterion(idx, outcome, pass_threshold) ==
    LET judge_call == run_judge_call(outcome, pass_threshold)
        parsed == judge_call.parsed
    IN  [criterion_id |-> criterion_id(idx),
         criterion_index |-> idx,
         parsed |-> parsed,
         criterion_score |->
             resolve_rubric_criterion_score(parsed.criteria, idx, parsed.score)[1],
         error |-> judge_call.error]

\* judging.py:288: results.sort(key=lambda item: item.criterion_index); the
\* indexes of the results are 1..Len(results), each once
sort_by_criterion_index(results) ==
    [i \in 1..Len(results) |->
        results[CHOOSE k \in 1..Len(results) : results[k].criterion_index = i]]

\* judging.py:359-370: the failure items of the criteria whose call raised
criterion_failures(criterion_results, display_index) ==
    LET failed == SelectSeq(criterion_results, LAMBDA r : r.error # NoError)
    IN  [i \in 1..Len(failed) |->
            build_judge_failure_item(display_index, failed[i].error, failed[i].criterion_id)]

\* (mutant: a criterion whose call raised is left out of the row)
materialize_rubric_rows_drops_raised(criterion_results, display_index) ==
    LET kept == SelectSeq(criterion_results, LAMBDA r : r.error = NoError)
    IN  [criterion_scores |->
            [k \in {kept[i].criterion_id : i \in 1..Len(kept)} |->
                LET i == CHOOSE j \in 1..Len(kept) : kept[j].criterion_id = k
                IN  kept[i].criterion_score],
         criterion_call_details |->
            [i \in 1..Len(kept) |->
                [criterion_id |-> kept[i].criterion_id,
                 criterion_index |-> kept[i].criterion_index,
                 score |-> kept[i].criterion_score,
                 parse_error |-> kept[i].parsed.parse_error,
                 error |-> kept[i].error]],
         any_parse_error |-> \E i \in 1..Len(kept) : kept[i].parsed.parse_error,
         failed_items |-> criterion_failures(criterion_results, display_index)]

\* judging.py:292-381 _materialize_rubric_rows
materialize_rubric_rows(criterion_results, display_index) ==
    [criterion_scores |->
        [k \in {criterion_results[i].criterion_id : i \in 1..Len(criterion_results)} |->
            LET i == CHOOSE j \in 1..Len(criterion_results) :
                        criterion_results[j].criterion_id = k
            IN  criterion_results[i].criterion_score],
     criterion_call_details |->
        [i \in 1..Len(criterion_results) |->
            [criterion_id |-> criterion_results[i].criterion_id,
             criterion_index |-> criterion_results[i].criterion_index,
             score |-> criterion_results[i].criterion_score,
             parse_error |-> criterion_results[i].parsed.parse_error,
             error |-> criterion_results[i].error]],
     any_parse_error |->
        \E i \in 1..Len(criterion_results) : criterion_results[i].parsed.parse_error,
     failed_items |-> criterion_failures(criterion_results, display_index)]

\* judging.py:384-415 _aggregate_rubric_result
aggregate_rubric_result(criterion_scores, any_parse_error, example, pass_threshold) ==
    enforce_fail_closed(
        apply_weighted_rubric_score(
            JudgeResult(Frac(0, 1), FALSE, criterion_scores, any_parse_error),
            example, pass_threshold))

\* judging.py:418-510 _handle_rubric_multi_judge, after the criterion calls
handle_rubric_multi_judge(display_index, example, pass_threshold, results) ==
    LET m == materialize_rubric_rows(sort_by_criterion_index(results), display_index)
        aggregate == aggregate_rubric_result(m.criterion_scores, m.any_parse_error,
                                             example, pass_threshold)
    IN  JudgeItemResult(
            build_judgment_row("rubric_multi_judge", aggregate, m.criterion_call_details),
            m.failed_items)

\* NormalizedExample, by what judging reads of it: judge_mode, the weights of
\* the rubric criteria, and whether metadata.correct_choice_ids is present
Example(judge_mode, rubric, has_choice_ids) ==
    [judge_mode |-> judge_mode, rubric |-> rubric, has_choice_ids |-> has_choice_ids]

Weights == {0, 1, 2, 8, 0 - 5}

Rubrics == UNION {[1..n -> Weights] : n \in 1..MaxCriteria}

JudgedExamples ==
    {Example("mcq", <<>>, h) : h \in BOOLEAN}
        \cup {Example("reference", <<>>, FALSE)}
        \cup {Example("rubric", r, FALSE) : r \in Rubrics \cup {<<>>}}

\* config.py:65 judge_pass_threshold (default 0.7), and a run that sets it to 0
PassThresholds == {Frac(7, 10), Frac(0, 1)}

\* judging.py:743-748
dispatch_judge_strategy(example) ==
    IF example.judge_mode = "mcq" THEN "mcq"
    ELSE IF example.judge_mode = "rubric" /\ Len(example.rubric) > 0 THEN "rubric_multi_judge"
    ELSE "single_judge"

\* exceptions that reach the except clause of _evaluate_judge_item
MISSING_CHOICE_IDS == "ValueError: MCQ example is missing metadata.correct_choice_ids"
HANDLER_ERROR == "RuntimeError: judge handler exploded"

\* summary.json before write_run_outputs has run
Unwritten ==
    [written |-> FALSE, run_status |-> "none", interrupted_stage |-> "none",
     responses |-> <<>>, judgments |-> <<>>, failed_items |-> <<>>, num_failures |-> 0]

\* config.py: RunConfig.final_response_source
ResponseSources == {"sampled", "prefilled", "part_of_conversation"}

\* generation.py:77
PreloadedSources == {"prefilled", "part_of_conversation"}

\* (mutant: only the prefilled source is checked for coverage)
missing_preloaded_responses_prefilled_only(source, tasks, by_key) ==
    IF source # "prefilled"
    THEN {}
    ELSE {i \in DOMAIN tasks : tasks[i].display_index \notin by_key}

\* generation.py:72-90 _validate_preloaded_responses_coverage: the planned
\* tasks without an entry; the function raises ValueError when there is one
missing_preloaded_responses(source, tasks, by_key) ==
    IF source \notin PreloadedSources
    THEN {}
    ELSE {i \in DOMAIN tasks : tasks[i].display_index \notin by_key}

\* ------------------------------------------------------------------ Init
InitRun ==
    /\ response_source \in ResponseSources
    /\ responses_by_key \in (IF response_source \in PreloadedSources
                             THEN SUBSET DisplayIndexes ELSE {{}})
    /\ response_workers \in 1..MaxWorkers
    /\ judge_workers \in 1..MaxWorkers
    /\ pc = "resolve"
    /\ next_task_idx = 0
    /\ inflight = {}
    /\ done = {}
    /\ fstate = [di \in DisplayIndexes |-> Fut("none")]
    /\ blocked_candidates = {}
    /\ generation_results = <<>>
    /\ failed_items = <<>>
    /\ interrupted = FALSE
    /\ okAtInterrupt = {}
    /\ responses_rows = <<>>
    /\ jstate = [di \in DisplayIndexes |-> "none"]
    /\ ordered_results = {}
    /\ judgments_rows = <<>>
    /\ judge_interrupted = FALSE
    /\ summary = Unwritten
    /\ judge_item_results = [di \in DisplayIndexes |-> NoItemResult]
    /\ judge_failed_items = <<>>

\* generation.py:438-443: run_generation_phase plans the tasks, resolves the
\* response source and validates its coverage; the ValueError leaves run()
\* through its finally clause (orchestrator.py:188-193), nothing is written
ResolveResponseSource ==
    /\ pc = "resolve"
    /\ pc' = IF missing_preloaded_responses(response_source, generation_tasks,
                                            responses_by_key) # {}
             THEN "config_error"
             ELSE "submit"
    /\ UNCHANGED <<response_source, responses_by_key, response_workers, judge_workers,
                   next_task_idx, inflight, done, fstate, blocked_candidates,
                   generation_results, failed_items, interrupted, okAtInterrupt,
                   responses_rows, jstate, ordered_results, judgments_rows,
                   judge_interrupted, summary, judge_item_results, judge_failed_items>>
    /\ UNCHANGED outsideRun

judgeVarsUnchanged ==
    UNCHANGED <<jstate, ordered_results, judgments_rows, judge_interrupted, summary,
                judge_item_results, judge_failed_items>>

\* ------------------------------------------------- generation phase actions

\* generation.py:282-294, the except KeyboardInterrupt block of
\* _execute_generation_workers: mark interrupted, cancel every inflight future
\* (only a future that has not started can be cancelled), shut the pool down
\* without waiting.
OnKeyboardInterrupt(inflightNow) ==
    /\ interrupted' = TRUE
    /\ okAtInterrupt' = {di \in DisplayIndexes : fstate[di].kind = "ok"}
    /\ fstate' = [di \in DisplayIndexes |->
                    IF fstate[di].kind = "pending" THEN Fut("cancelled") ELSE fstate[di]]
    /\ inflight' = inflightNow
    /\ pc' = "generation_return"

\* generation.py:336: the task is skipped instead of submitted
\* (mutant: no task is ever skipped)
skips_task_never(di) == FALSE

skips_task(di) == CandidateOf(di) \in blocked_candidates

\* generation.py:248-264 + 323-356: one iteration of _submit_until_full
SubmitGenerationTask ==
    /\ pc = "submit"
    /\ Cardinality(inflight) < generation_worker_count
    /\ next_task_idx < Len(generation_tasks)
    /\ LET di == generation_tasks[next_task_idx + 1].display_index IN
        /\ next_task_idx' = next_task_idx + 1
        /\ IF skips_task(di)
           THEN /\ failed_items' =
                      Append(failed_items, build_generation_failure_item(di, {SKIPPED_REASON}))
                /\ UNCHANGED <<fstate, inflight>>
           ELSE /\ fstate' = [fstate EXCEPT ![di] = Fut("pending")]
                /\ inflight' = inflight \cup {di}
                /\ UNCHANGED failed_items
    /\ UNCHANGED <<response_source, responses_by_key, response_workers, judge_workers, pc, done, blocked_candidates,
                   generation_results, interrupted, okAtInterrupt, responses_rows>>
    /\ judgeVarsUnchanged
    /\ UNCHANGED outsideRun

\* generation.py:250, 268, 273, 295-296: _submit_until_full returns; control goes
\* to the next future of the done set, to concurrent.futures.wait, or out of
\* the loop (pool.shutdown(wait=True)) when nothing is inflight.
SubmitUntilFullReturns ==
    /\ pc = "submit"
    /\ ~(Cardinality(inflight) < generation_worker_count
         /\ next_task_idx < Len(generation_tasks))
    /\ pc' = IF done # {} THEN "handle"
             ELSE IF inflight # {} THEN "wait"
             ELSE "generation_return"
    /\ UNCHANGED <<response_source, responses_by_key, response_workers, judge_workers, next_task_idx, inflight, done, fstate,
                   blocked_candidates, generation_results, failed_items, interrupted,
                   okAtInterrupt, responses_rows>>
    /\ judgeVarsUnchanged
    /\ UNCHANGED outsideRun

\* generation.py:269-272: concurrent.futures.wait(..., FIRST_COMPLETED) returns
\* the inflight futures that are finished at that moment (at least one).
WaitFirstCompleted ==
    /\ pc = "wait"
    /\ \E di \in inflight : FutureFinished(fstate[di])
    /\ done' = {di \in inflight : FutureFinished(fstate[di])}
    /\ pc' = "handle"
    /\ UNCHANGED <<response_source, responses_by_key, response_workers, judge_workers, next_task_idx, inflight, fstate,
                   blocked_candidates, generation_results, failed_items, interrupted,
                   okAtInterrupt, responses_rows>>
    /\ judgeVarsUnchanged
    /\ UNCHANGED outsideRun

\* generation.py:377-384: the failure item appended when future.result() raised
\* (mutant: a candidate-fatal failure blocks the candidate but is not recorded)
failed_items_after_exception_unrecorded_fatal(di, message) ==
    IF is_candidate_fatal_error(message) THEN failed_items
    ELSE Append(failed_items, build_generation_failure_item(di, message))

failed_items_after_exception(di, message) ==
    Append(failed_items, build_generation_failure_item(di, message))

\* generation.py:385-386: the blocked set after the failure of task di
\* (mutant: a candidate-fatal failure blocks every candidate)
blocked_candidates_after_exception_all(di, message) ==
    IF is_candidate_fatal_error(message) THEN Candidates ELSE blocked_candidates

\* (mutant: the insert replaces the set, losing the inserts made before it)
blocked_candidates_after_exception_lost_insert(di, message) ==
    IF is_candidate_fatal_error(message) THEN {CandidateOf(di)} ELSE blocked_candidates

blocked_candidates_after_exception(di, message) ==
    IF is_candidate_fatal_error(message)
    THEN blocked_candidates \cup {CandidateOf(di)}
    ELSE blocked_candidates

\* generation.py:359-392 _handle_generation_future, for one future of the done
\* set (a set: iteration order is arbitrary).  future.result() re-raises what
\* the worker raised; a KeyboardInterrupt is not an Exception and reaches the
\* except block of _execute_generation_workers.
HandleGenerationFuture ==
    /\ pc = "handle"
    /\ \E di \in done :
        LET outcome == fstate[di] IN
        /\ done' = done \ {di}
        /\ CASE outcome.kind = "ok" ->
                  /\ generation_results' = Append(generation_results, di)
                  /\ inflight' = inflight \ {di}
                  /\ pc' = "submit"
                  /\ UNCHANGED <<failed_items, blocked_candidates, interrupted,
                                 okAtInterrupt, fstate>>
             [] outcome.kind = "exception" ->
                  /\ failed_items' = failed_items_after_exception(di, outcome.message)
                  /\ blocked_candidates' =
                        blocked_candidates_after_exception(di, outcome.message)
                  /\ inflight' = inflight \ {di}
                  /\ pc' = "submit"
                  /\ UNCHANGED <<generation_results, interrupted, okAtInterrupt, fstate>>
             [] outcome.kind = "keyboard_interrupt" ->
                  /\ OnKeyboardInterrupt(inflight \ {di})
                  /\ UNCHANGED <<generation_results, failed_items, blocked_candidates>>
    /\ UNCHANGED <<response_source, responses_by_key, response_workers, judge_workers, next_task_idx, responses_rows>>
    /\ judgeVarsUnchanged
    /\ UNCHANGED outsideRun

\* A KeyboardInterrupt delivered to the main thread while it is inside the try
\* block of _execute_generation_workers (generation.py:266-281).
SignalDuringGeneration ==
    /\ pc \in {"submit", "wait", "handle"}
    /\ OnKeyboardInterrupt(inflight)
    /\ UNCHANGED <<response_source, responses_by_key, response_workers, judge_workers, next_task_idx, done,
                   blocked_candidates, generation_results, failed_items, responses_rows>>
    /\ judgeVarsUnchanged
    /\ UNCHANGED outsideRun

\* generation.py:143-152, 157-165: a preloaded response is taken from the
\* mapping without a model call; a sampled one comes from run_model_call,
\* which may raise
worker_outcomes(source) ==
    IF source \in PreloadedSources
    THEN {Fut("ok"), Fut("keyboard_interrupt")}
    ELSE WorkerOutcomes

\* A pool thread picks up the oldest submitted task (the pool's work queue is
\* FIFO): response_builder starts (_generate_candidate_response,
\* generation.py:93), the response-stage call begins.
GenerationWorkerStart(di) ==
    /\ fstate[di].kind = "pending"
    /\ \A d \in DisplayIndexes : fstate[d].kind = "pending" => di <= d
    /\ fstate' = [fstate EXCEPT ![di] = Fut("running")]
    /\ UNCHANGED <<response_source, responses_by_key, response_workers, judge_workers, pc, next_task_idx, inflight, done,
                   blocked_candidates, generation_results, failed_items, interrupted,
                   okAtInterrupt, responses_rows>>
    /\ judgeVarsUnchanged
    /\ UNCHANGED outsideRun

\* The worker returns a GenerationItemResult or raises; a started task runs to
\* its end whatever the coordinator does meanwhile.
GenerationWorkerFinish(di) ==
    /\ fstate[di].kind = "running"
    /\ \E outcome \in worker_outcomes(response_source) :
            fstate' = [fstate EXCEPT ![di] = outcome]
    /\ UNCHANGED <<response_source, responses_by_key, response_workers, judge_workers, pc, next_task_idx, inflight, done,
                   blocked_candidates, generation_results, failed_items, interrupted,
                   okAtInterrupt, responses_rows>>
    /\ judgeVarsUnchanged
    /\ UNCHANGED outsideRun

\* generation.py:474-494 (tail of run_generation_phase) and
\* orchestrator.py:138-141: sort the results, build the response rows, then
\* either skip judging (interrupted) or enter run_judge_phase.
\* (mutant: the judging phase is entered whatever the generation phase reported)
run_judge_after_generation_always(isInterrupted) == TRUE

run_judge_after_generation(isInterrupted) == ~isInterrupted

GenerationPhaseReturns ==
    /\ pc = "generation_return"
    /\ generation_results' = sort_by_display_index(generation_results)
    /\ responses_rows' = sort_by_display_index(generation_results)
    /\ pc' = IF run_judge_after_generation(interrupted) THEN "judge_submit" ELSE "write"
    /\ UNCHANGED <<response_source, responses_by_key, response_workers, judge_workers, next_task_idx, inflight, done, fstate,
                   blocked_candidates, failed_items, interrupted, okAtInterrupt>>
    /\ judgeVarsUnchanged
    /\ UNCHANGED outsideRun

\* --------------------------------------------------- judging phase actions

\* judging.py:766
item_workers == Min(Max(1, judge_workers),
                    IF Len(generation_results) = 0 THEN 1 ELSE Len(generation_results))

\* (mutant: an item whose judging failed gets no judgment row)
materialize_judgments_skips_failed(collected) ==
    SelectSeq(generation_results,
              LAMBDA di : di \in collected /\ judge_item_results[di].failed_items = <<>>)

\* judging.py:804-830: the judgment rows, in the order of generation_results,
\* of the items whose result was collected
materialize_judgments(collected) ==
    SelectSeq(generation_results, LAMBDA di : di \in collected)

\* judging.py:813-824: failed_items.extend(result.failed_items) for the
\* collected items, in generation_results order
RECURSIVE materialize_failed_items(_, _)
materialize_failed_items(results, collected) ==
    IF results = <<>>
    THEN <<>>
    ELSE (IF Head(results) \in collected
          THEN judge_item_results[Head(results)].failed_items
          ELSE <<>>) \o materialize_failed_items(Tail(results), collected)

\* The examples of a run are judged by the primary judge against a reference
\* answer, with the default pass threshold
RunExample == Example("reference", <<>>, FALSE)

RunPassThreshold == Frac(7, 10)

\* judging.py:513-570: what _evaluate_judge_item can return for an item of the
\* run: the judge answers, the judge call raises, the handler raises
evaluate_judge_item(di) ==
    {handle_single_judge(di, RunExample, RunPassThreshold, outcome,
                         POLICY_DEFAULT) :
        outcome \in CallOutcomes({JudgeText("score", Frac(1, 1), "absent")})}
        \cup {build_unexpected_judge_item_result(di, HANDLER_ERROR)}

\* the number of items whose judging has failed so far
judge_failures ==
    Cardinality({di \in DisplayIndexes : judge_item_results[di].failed_items # <<>>})

\* judging.py:772-783: one judging item is submitted per generation result
JudgePhaseSubmit ==
    /\ pc = "judge_submit"
    /\ jstate' = [di \in DisplayIndexes |->
                    IF di \in SeqToSet(generation_results) THEN "pending" ELSE jstate[di]]
    /\ pc' = "judge_collect"
    /\ UNCHANGED <<response_source, responses_by_key, response_workers, judge_workers, next_task_idx, inflight, done, fstate,
                   blocked_candidates, generation_results, failed_items, interrupted,
                   okAtInterrupt, responses_rows, ordered_results, judgments_rows,
                   judge_interrupted, summary, judge_item_results, judge_failed_items>>
    /\ UNCHANGED outsideRun

\* A pool thread (one of item_workers) takes the oldest queued item and starts
\* _evaluate_judge_item: the judge-stage work of the item begins.
JudgeWorkerStart(di) ==
    /\ jstate[di] = "pending"
    /\ \A d \in DisplayIndexes : jstate[d] = "pending" => di <= d
    /\ Cardinality({d \in DisplayIndexes : jstate[d] = "running"}) < item_workers
    /\ jstate' = [jstate EXCEPT ![di] = "running"]
    /\ UNCHANGED <<response_source, responses_by_key, response_workers, judge_workers, pc, next_task_idx, inflight, done, fstate,
                   blocked_candidates, generation_results, failed_items, interrupted,
                   okAtInterrupt, responses_rows, ordered_results, judgments_rows,
                   judge_interrupted, summary, judge_item_results, judge_failed_items>>
    /\ UNCHANGED outsideRun

\* judging.py:513-570 _evaluate_judge_item returns a JudgeItemResult: the
\* judgment of the primary judge, the error judgment of a judge call that
\* raised, or the error judgment of an exception inside the dispatch
JudgeWorkerFinish(di) ==
    /\ jstate[di] = "running"
    /\ jstate' = [jstate EXCEPT ![di] = "done"]
    /\ \E result \in evaluate_judge_item(di) :
            /\ (result.failed_items # <<>>) => judge_failures < MaxJudgeFailures
            /\ judge_item_results' = [judge_item_results EXCEPT ![di] = result]
    /\ UNCHANGED <<response_source, responses_by_key, response_workers, judge_workers, pc, next_task_idx, inflight, done, fstate,
                   blocked_candidates, generation_results, failed_items, interrupted,
                   okAtInterrupt, responses_rows, ordered_results, judgments_rows,
                   judge_interrupted, summary, judge_failed_items>>
    /\ UNCHANGED outsideRun

\* judging.py:784-786: as_completed yields a finished future, its result is stored
JudgeCollect ==
    /\ pc = "judge_collect"
    /\ \E di \in DisplayIndexes :
        /\ jstate[di] = "done"
        /\ di \notin ordered_results
        /\ ordered_results' = ordered_results \cup {di}
    /\ UNCHANGED <<response_source, responses_by_key, response_workers, judge_workers, pc, next_task_idx, inflight, done, fstate,
                   blocked_candidates, generation_results, failed_items, interrupted,
                   okAtInterrupt, responses_rows, jstate, judgments_rows,
                   judge_interrupted, summary, judge_item_results, judge_failed_items>>
    /\ UNCHANGED outsideRun

\* judging.py:810-840: as_completed is exhausted, pool.shutdown(wait=True),
\* rows are materialised in generation_results order
JudgePhaseReturns ==
    /\ pc = "judge_collect"
    /\ SeqToSet(generation_results) \subseteq ordered_results
    /\ judgments_rows' = materialize_judgments(ordered_results)
    /\ judge_failed_items' = materialize_failed_items(generation_results, ordered_results)
    /\ pc' = "write"
    /\ UNCHANGED <<response_source, responses_by_key, response_workers, judge_workers, next_task_idx, inflight, done, fstate,
                   blocked_candidates, generation_results, failed_items, interrupted,
                   okAtInterrupt, responses_rows, jstate, ordered_results,
                   judge_interrupted, summary, judge_item_results>>
    /\ UNCHANGED outsideRun

\* judging.py:787-809: KeyboardInterrupt/SystemExit while collecting: cancel
\* what has not started, keep the result of every future that is already done
JudgePhaseInterrupted ==
    /\ pc = "judge_collect"
    /\ judge_interrupted' = TRUE
    /\ jstate' = [di \in DisplayIndexes |->
                    IF jstate[di] = "pending" THEN "cancelled" ELSE jstate[di]]
    /\ ordered_results' = ordered_results \cup {di \in DisplayIndexes : jstate[di] = "done"}
    /\ judgments_rows' = materialize_judgments(ordered_results')
    /\ judge_failed_items' = materialize_failed_items(generation_results, ordered_results')
    /\ pc' = "write"
    /\ UNCHANGED <<response_source, responses_by_key, response_workers, judge_workers, next_task_idx, inflight, done, fstate,
                   blocked_candidates, generation_results, failed_items, interrupted,
                   okAtInterrupt, responses_rows, summary, judge_item_results>>
    /\ UNCHANGED outsideRun

\* orchestrator.py:169-185 + output.py write_run_outputs
WriteRunOutputs ==
    /\ pc = "write"
    /\ summary' =
        [written |-> TRUE,
         run_status |-> IF interrupted THEN "interrupted" ELSE "completed",
         interrupted_stage |-> IF interrupted THEN "generation" ELSE "none",
         responses |-> responses_rows,
         judgments |-> judgments_rows,
         failed_items |-> failed_items,
         num_failures |-> Len(failed_items)]
    /\ pc' = "done"
    /\ UNCHANGED <<response_source, responses_by_key, response_workers, judge_workers, next_task_idx, inflight, done, fstate,
                   blocked_candidates, generation_results, failed_items, interrupted,
                   okAtInterrupt, responses_rows, jstate, ordered_results, judgments_rows,
                   judge_interrupted, judge_item_results, judge_failed_items>>
    /\ UNCHANGED outsideRun

Next ==
    \/ ResolveResponseSource
    \/ SubmitGenerationTask
    \/ SubmitUntilFullReturns
    \/ WaitFirstCompleted
    \/ HandleGenerationFuture
    \/ SignalDuringGeneration
    \/ \E di \in DisplayIndexes : GenerationWorkerStart(di)
    \/ \E di \in DisplayIndexes : GenerationWorkerFinish(di)
    \/ GenerationPhaseReturns
    \/ JudgePhaseSubmit
    \/ \E di \in DisplayIndexes : JudgeWorkerStart(di)
    \/ \E di \in DisplayIndexes : JudgeWorkerFinish(di)
    \/ JudgeCollect
    \/ JudgePhaseReturns
    \/ JudgePhaseInterrupted
    \/ WriteRunOutputs


\* ======================================================================
\* Model-call executor, cache and retry loop (specification SpecCall)
\* ======================================================================

\* ------------------------------------------------------------------ text
Whitespace == {" ", "\t"}

TextNone == [is_none |-> TRUE, chars |-> <<>>]
Text(chars) == [is_none |-> FALSE, chars |-> chars]

RECURSIVE lstrip(_)
lstrip(chars) ==
    IF chars = <<>> THEN <<>>
    ELSE IF Head(chars) \in Whitespace THEN lstrip(Tail(chars))
    ELSE chars

RECURSIVE rstrip(_)
rstrip(chars) ==
    IF chars = <<>> THEN <<>>
    ELSE IF chars[Len(chars)] \in Whitespace THEN rstrip(SubSeq(chars, 1, Len(chars) - 1))
    ELSE chars

\* str.strip()
strip(chars) == rstrip(lstrip(chars))

\* bootstrap.py:66-70 _is_empty_response_payload (and the same test at 83-85)
is_empty_response_payload(payload) ==
    IF payload.text.is_none THEN TRUE
    ELSE strip(payload.text.chars) = <<>>

\* Texts a provider returns in this model
ProviderTexts == {Text(<<>>), Text(<<" ">>), Text(<<" ", "a">>)}

\* -------------------------------------------------------------- requests
Stages == {"response", "judge"}

Requests ==
    {[provider |-> "fake", model |-> "fake/model", messages |-> m, request_id |-> "req-1"] :
        m \in {<<"hello">>}}

\* helpers.py:19-35 _cache_key_payload: request_id and metadata are not part of the key
cache_key_payload(request, stage) ==
    [stage |-> stage, provider |-> request.provider, model |-> request.model,
     messages |-> request.messages]

\* cache.py:24-27 make_key: digest of the canonical (sort_keys) JSON encoding,
\* modelled by the canonical encoding itself
make_key(payload) ==
    <<<<"messages", payload.messages>>, <<"model", payload.model>>,
      <<"provider", payload.provider>>, <<"stage", payload.stage>>>>

CacheKeys == {make_key(cache_key_payload(r, st)) : r \in Requests, st \in Stages}

StageOfKey(key) == key[4][2]

\* --------------------------------------------------------------- payload
\* bootstrap.py:94-102 / run.py:75-83: the payload built from an LLMResponse
build_payload(resp) ==
    [provider |-> resp.provider, model |-> resp.model, text |-> resp.text,
     usage |-> resp.usage, latency_s |-> resp.latency_s,
     request_id |-> resp.request_id, raw_response |-> resp.raw_response]

\* The LLMResponse a provider returns for a request when it answers with text
LLMResponse(request, text) ==
    [provider |-> request.provider, model |-> request.model, text |-> text,
     usage |-> 2, latency_s |-> 1, request_id |-> request.request_id,
     raw_response |-> "None"]

NoResponse == LLMResponse([provider |-> "", model |-> "", request_id |-> ""], TextNone)

\* json.dump / json.load of a payload (cache.py:40, 55): a JSON object is a
\* sequence of name/value pairs, None is null, a str is a string
json_text(text) ==
    IF text.is_none THEN [type |-> "null", chars |-> <<>>]
    ELSE [type |-> "string", chars |-> text.chars]

json_dump(payload) ==
    <<<<"provider", payload.provider>>, <<"model", payload.model>>,
      <<"text", json_text(payload.text)>>, <<"usage", payload.usage>>,
      <<"latency_s", payload.latency_s>>, <<"request_id", payload.request_id>>,
      <<"raw_response", payload.raw_response>>>>

json_load(doc) ==
    [provider |-> doc[1][2], model |-> doc[2][2],
     text |-> IF doc[3][2].type = "null" THEN TextNone ELSE Text(doc[3][2].chars),
     usage |-> doc[4][2], latency_s |-> doc[5][2], request_id |-> doc[6][2],
     raw_response |-> doc[7][2]]

\* ----------------------------------------------------------------- cache
\* One file per key: absent, a text that is not a JSON document, bytes that
\* are not UTF-8 text, or a JSON document
AbsentFile == [state |-> "absent", doc |-> <<>>]
CorruptFile == [state |-> "corrupt", doc |-> <<>>]
GarbledFile == [state |-> "bytes", doc |-> <<>>]
JsonFile(payload) == [state |-> "json", doc |-> json_dump(payload)]

NoPayload == build_payload(NoResponse)

\* cache.py:32-47 DiskCache.get: the value returned (found = FALSE for None) ...
DiskCache_get_always_absent(enabled, fs, key) ==
    [found |-> FALSE, value |-> NoPayload, raises |-> FALSE]

\* json.load raises JSONDecodeError on a text that is not JSON, which the
\* except clause catches (cache.py:41); on bytes that are not UTF-8 the
\* file's read() raises UnicodeDecodeError, a ValueError that is neither a
\* JSONDecodeError nor an OSError: it leaves get (raises = TRUE)
DiskCache_get(enabled, fs, key) ==
    IF ~enabled THEN [found |-> FALSE, value |-> NoPayload, raises |-> FALSE]
    ELSE IF fs[key].state = "absent" THEN [found |-> FALSE, value |-> NoPayload, raises |-> FALSE]
    ELSE IF fs[key].state = "corrupt" THEN [found |-> FALSE, value |-> NoPayload, raises |-> FALSE]
    ELSE IF fs[key].state = "bytes" THEN [found |-> FALSE, value |-> NoPayload, raises |-> TRUE]
    ELSE [found |-> TRUE, value |-> json_load(fs[key].doc), raises |-> FALSE]

\* (mutant: an entry that was read is consumed)
DiskCache_get_files_consumes_entry(enabled, fs, key) ==
    IF enabled THEN [fs EXCEPT ![key] = AbsentFile] ELSE fs

\* ... and the files it leaves: an entry that raised JSONDecodeError is unlinked
DiskCache_get_files(enabled, fs, key) ==
    IF enabled /\ fs[key].state = "corrupt" THEN [fs EXCEPT ![key] = AbsentFile]
    ELSE fs

\* cache.py:49-56 DiskCache.set: write <key>.tmp, then rename over <key>.json
DiskCache_set(enabled, fs, key, value) ==
    IF ~enabled THEN fs ELSE [fs EXCEPT ![key] = JsonFile(value)]

\* (mutant: delete leaves the entry in place)
DiskCache_delete_keeps_entry(enabled, fs, key) == fs

\* DiskCache.delete is called at bootstrap.py:76 and exercised by
\* tests/core/test_cache.py, but src/cache.py does not define it: removes the
\* entry of the key, a no-op without an entry or with the cache disabled.
DiskCache_delete(enabled, fs, key) ==
    IF ~enabled THEN fs ELSE [fs EXCEPT ![key] = AbsentFile]

\* ------------------------------------------------------------ exceptions
\* An attribute an exception may carry: missing/None, a number, or a value
\* that int()/float() rejects.
NoneAttr == [kind |-> "none", num |-> 0]
Num(n) == [kind |-> "num", num |-> n]
Junk == [kind |-> "junk", num |-> 0]

\* A message is the sequence of its words.
Exception(message) ==
    [message |-> message, status_code |-> NoneAttr, code |-> NoneAttr,
     response_status_code |-> NoneAttr, status |-> "",
     retry_after |-> NoneAttr, header_retry_after |-> NoneAttr,
     message_retry_after |-> NoneAttr]

NoException == Exception(<<>>)

\* bootstrap.py:85 RuntimeError("empty response text")
EmptyResponseError == Exception(<<"empty", "response", "text">>)

\* retry.py:134 the AssertionError of "assert last_exc is not None"
AssertionError == Exception(<<"AssertionError">>)

\* str.lower() on the words used here
Lower(word) ==
    CASE word = "Rate" -> "rate"
      [] word = "Limit" -> "limit"
      [] word = "UNAVAILABLE" -> "unavailable"
      [] word = "Overloaded" -> "overloaded"
      [] OTHER -> word

LowerSeq(words) == [i \in 1..Len(words) |-> Lower(words[i])]

\* retry.py:14-38
TRANSIENT_MARKERS ==
    { <<"rate", "limit">>, <<"429">>, <<"500">>, <<"502">>, <<"503">>, <<"504">>,
      <<"timeout">>, <<"timed", "out">>, <<"temporarily", "unavailable">>,
      <<"connection">>, <<"connecttimeout">>, <<"connecterror">>,
      <<"remoteprotocolerror">>, <<"disconnected">>, <<"unavailable">>,
      <<"deadline_exceeded">>, <<"ratelimiterror">>,
      <<"service_tier_capacity_exceeded">>, <<"capacity", "exceeded">>,
      <<"overloaded">>, <<"empty", "response", "text">>, <<"service", "unavailable">>,
      <<"internal", "server", "error">> }

\* "marker in msg"
Contains(msg, marker) ==
    \E i \in 1..Len(msg) :
        /\ i + Len(marker) - 1 <= Len(msg)
        /\ SubSeq(msg, i, i + Len(marker) - 1) = marker

\* retry.py:41-58 _extract_status_code
extract_status_code(exc) ==
    IF exc.status_code.kind = "num" THEN exc.status_code
    ELSE IF exc.code.kind = "num" THEN exc.code
    ELSE IF exc.response_status_code.kind = "num" THEN exc.response_status_code
    ELSE NoneAttr

\* retry.py:61-65 _extract_status_text
extract_status_text(exc) == Lower(exc.status)

\* retry.py:68-76 is_transient_error
is_transient_error(exc) ==
    LET status_code == extract_status_code(exc) IN
    \/ (status_code.kind = "num" /\ status_code.num \in {429, 500, 502, 503, 504})
    \/ extract_status_text(exc) \in
          {"unavailable", "deadline_exceeded", "service_unavailable", "too_many_requests"}
    \/ \E marker \in TRANSIENT_MARKERS : Contains(LowerSeq(exc.message), marker)

\* retry.py:79-88 _parse_retry_after_value
parse_retry_after_value(value) ==
    IF value.kind = "num" /\ value.num >= 0 THEN value ELSE NoneAttr

\* retry.py:91-109 _extract_retry_after_seconds: attribute, then response
\* header, then the number the regular expression finds in the message
extract_retry_after_seconds(exc) ==
    IF parse_retry_after_value(exc.retry_after).kind = "num"
        THEN parse_retry_after_value(exc.retry_after)
    ELSE IF parse_retry_after_value(exc.header_retry_after).kind = "num"
        THEN parse_retry_after_value(exc.header_retry_after)
    ELSE parse_retry_after_value(exc.message_retry_after)

\* Exceptions a provider raises in this model
ValidationError == Exception(<<"validation", "failed">>)
RateLimited == [Exception(<<"too", "many", "requests">>) EXCEPT
                    !.status_code = Num(429), !.header_retry_after = Num(99)]
OverloadedError == Exception(<<"Overloaded">>)

ProviderErrors == {ValidationError, RateLimited, OverloadedError}

RECURSIVE Pow2(_)
Pow2(n) == IF n <= 0 THEN 1 ELSE 2 * Pow2(n - 1)

\* retry.py:127-132: the delays the backoff may sleep, in half seconds (0.5 s
\* is 1; random.uniform is represented by its two end points)
\* (mutant: the jitter is added to a retry-after hint as well)
backoff_delays_jitter_on_hint(retry, attempt_no, exc) ==
    LET retry_after == extract_retry_after_seconds(exc) IN
    IF retry_after.kind = "num"
    THEN {Min(retry.max_delay_s, retry_after.num) + jitter :
            jitter \in {0, Min(1, retry.base_delay_s)}}
    ELSE {Min(retry.max_delay_s, retry.base_delay_s * Pow2(attempt_no - 1)) + jitter :
            jitter \in {0, Min(1, retry.base_delay_s)}}

backoff_delays(retry, attempt_no, exc) ==
    LET retry_after == extract_retry_after_seconds(exc) IN
    IF retry_after.kind = "num"
    THEN {Min(retry.max_delay_s, retry_after.num)}
    ELSE {Min(retry.max_delay_s, retry.base_delay_s * Pow2(attempt_no - 1)) + jitter :
            jitter \in {0, Min(1, retry.base_delay_s)}}

\* retry.py:125: the exception is re-raised instead of retried
\* (mutant: only exhausted attempts stop the loop)
reraises_only_when_exhausted(retry, attempt_no, exc) ==
    attempt_no >= retry.max_attempts

reraises(retry, attempt_no, exc) ==
    attempt_no >= retry.max_attempts \/ ~is_transient_error(exc)

\* retry.py:119-120: before_attempt is called when it was passed
\* (mutant: the hook gates the logical call only, i.e. its first attempt)
calls_before_attempt_first_only(hook_given, attempt_no) == hook_given /\ attempt_no = 1

calls_before_attempt(hook_given, attempt_no) == hook_given

\* ------------------------------------------------------- executor state
MaxAttempts == 2
MaxCalls == 2

Executors == {"run_model_call", "_run_model_call"}

\* config.py:21-24 RetryConfig (delays in half seconds); max_attempts is not validated
RetryConfigs ==
    {[max_attempts |-> n, base_delay_s |-> 2, max_delay_s |-> 5] : n \in 0..MaxAttempts}

NoCur ==
    [request |-> [provider |-> "", model |-> "", messages |-> <<>>, request_id |-> ""],
     stage |-> "", hook_given |-> FALSE, key |-> <<>>, file_before |-> AbsentFile,
     lookup |-> "", provider_limiter |-> FALSE]

NoPending == [exc |-> NoException, delay |-> 0]

NoCall ==
    [completed |-> FALSE, stage |-> "", key |-> <<>>, file_before |-> AbsentFile,
     lookup |-> "", outcome |-> "", payload |-> NoPayload, cache_hit |-> FALSE,
     exc |-> NoException, invocations |-> 0, nonempty_only |-> TRUE]

Event(ev, attempt_no) ==
    [ev |-> ev, attempt |-> attempt_no, result |-> "", text |-> TextNone,
     exc |-> NoException, delay |-> 0, waits |-> <<>>]

Invocations(evs) == {i \in 1..Len(evs) : evs[i].ev = "invoke"}

\* Entries left in the cache directory by earlier runs
SeedTexts == {TextNone, Text(<<>>), Text(<<" ">>), Text(<<"c">>)}

SeedPayload(text) ==
    [provider |-> "fake", model |-> "fake/model", text |-> text, usage |-> 0,
     latency_s |-> 0, request_id |-> "cached", raw_response |-> "None"]

SeedFiles ==
    {[k \in CacheKeys |-> AbsentFile]} \cup
    {[k \in CacheKeys |-> IF StageOfKey(k) = "response" THEN f ELSE AbsentFile] :
        f \in {CorruptFile} \cup {JsonFile(SeedPayload(t)) : t \in SeedTexts}} \cup
    {[k \in CacheKeys |-> IF StageOfKey(k) = "judge"
                          THEN JsonFile(SeedPayload(Text(<<>>))) ELSE AbsentFile]}

\* The executor with no call in progress and an empty history
IdleCall ==
    /\ executor = "run_model_call"
    /\ cache_enabled = TRUE
    /\ retry_cfg = [max_attempts |-> 0, base_delay_s |-> 2, max_delay_s |-> 5]
    /\ files = [k \in CacheKeys |-> AbsentFile]
    /\ cpc = "idle"
    /\ cur = NoCur
    /\ attempt = 0
    /\ pending = NoPending
    /\ response = NoResponse
    /\ events = <<>>
    /\ last_call = NoCall
    /\ prev_call = NoCall
    /\ ncalls = 0
    /\ writes = {}

InitCall ==
    /\ executor \in Executors
    /\ cache_enabled \in BOOLEAN
    /\ retry_cfg \in RetryConfigs
    /\ files \in SeedFiles
    /\ cpc = "idle"
    /\ cur = NoCur
    /\ attempt = 0
    /\ pending = NoPending
    /\ response = NoResponse
    /\ events = <<>>
    /\ last_call = NoCall
    /\ prev_call = NoCall
    /\ ncalls = 0
    /\ writes = {}

\* The call returns or raises: its record joins the history.  evs is the
\* history of the whole call.
Finish(outcome, payload, cache_hit, exc, lookup, evs) ==
    /\ last_call' =
        [completed |-> TRUE, stage |-> cur.stage, key |-> cur.key,
         file_before |-> cur.file_before, lookup |-> lookup, outcome |-> outcome,
         payload |-> payload, cache_hit |-> cache_hit, exc |-> exc,
         invocations |-> Cardinality(Invocations(evs)),
         nonempty_only |-> \A i \in Invocations(evs) :
                              ~evs[i].text.is_none /\ strip(evs[i].text.chars) # <<>>]
    /\ prev_call' = last_call
    /\ ncalls' = ncalls + 1
    /\ cpc' = "idle"
    /\ cur' = [cur EXCEPT !.lookup = lookup]
    /\ events' = evs
    /\ attempt' = 0
    /\ pending' = NoPending
    /\ response' = NoResponse

\* ------------------------------------------------------ executor actions

\* generation.py:124-128 _wait_for_generation_slot: the limiters the hook of
\* a generation task waits on, in order
\* (mutant: a configured provider limiter is waited on first)
wait_for_generation_slot_provider_first(provider_limiter) ==
    IF provider_limiter THEN <<"provider_limiter", "response_rate_limiter">>
    ELSE <<"response_rate_limiter">>

wait_for_generation_slot(provider_limiter) ==
    IF provider_limiter THEN <<"response_rate_limiter", "provider_limiter">>
    ELSE <<"response_rate_limiter">>

\* generation.py:157-165: a response-stage call with a hook is the call of a
\* generation task, its hook is _wait_for_generation_slot; orchestrator.py:78-81:
\* the provider of the candidate has a limiter of its own or not
ProviderLimiterChoices(stage, hook_given) ==
    IF stage = "response" /\ hook_given THEN BOOLEAN ELSE {FALSE}

\* What the hook passed to with_retries does when it is called
hook_waits(call) ==
    IF call.stage = "response" /\ call.hook_given
    THEN wait_for_generation_slot(call.provider_limiter)
    ELSE <<>>

\* A caller enters the executor (generation.py:157, judging.py:78)
StartCall ==
    /\ cpc = "idle"
    /\ ncalls < MaxCalls
    /\ \E request \in Requests, stage \in Stages, hook_given \in BOOLEAN :
        \E provider_limiter \in ProviderLimiterChoices(stage, hook_given) :
            LET key == make_key(cache_key_payload(request, stage)) IN
            cur' = [request |-> request, stage |-> stage, hook_given |-> hook_given,
                    key |-> key, file_before |-> files[key], lookup |-> "",
                    provider_limiter |-> provider_limiter]
    /\ cpc' = "lookup"
    /\ events' = <<>>
    /\ UNCHANGED <<executor, cache_enabled, retry_cfg, files, attempt, pending, response,
                   last_call, prev_call, ncalls, writes>>
    /\ UNCHANGED outsideCall

\* bootstrap.py:73-75: run_model_call does not serve a response-stage entry
\* whose text is empty; run.py:66-68: _run_model_call serves every entry
quarantines(stage, cached) ==
    executor = "run_model_call" /\ stage = "response" /\ is_empty_response_payload(cached)

\* bootstrap.py:71-78 (run_model_call) and run.py:64-68 (_run_model_call)
CacheLookup ==
    /\ cpc = "lookup"
    /\ LET cached == DiskCache_get(cache_enabled, files, cur.key)
           after_get == DiskCache_get_files(cache_enabled, files, cur.key)
       IN
       IF cached.found /\ ~quarantines(cur.stage, cached.value)
       THEN /\ files' = after_get
            /\ Finish("returned", cached.value, TRUE, NoException, "hit", events)
       ELSE /\ files' = IF cached.found
                        THEN DiskCache_delete(cache_enabled, after_get, cur.key)
                        ELSE after_get
            /\ cur' = [cur EXCEPT !.lookup = IF cached.found THEN "evicted" ELSE "miss"]
            /\ attempt' = 1
            /\ cpc' = IF retry_cfg.max_attempts >= 1 THEN "before_attempt" ELSE "fall_through"
            /\ UNCHANGED <<pending, response, events, last_call, prev_call, ncalls>>
    /\ UNCHANGED <<executor, cache_enabled, retry_cfg, writes>>
    /\ UNCHANGED outsideCall

\* retry.py:118-120: top of the loop body
BeforeAttempt ==
    /\ cpc = "before_attempt"
    /\ events' = IF calls_before_attempt(cur.hook_given, attempt)
                 THEN Append(events, [Event("before_attempt", attempt) EXCEPT
                                          !.waits = hook_waits(cur)])
                 ELSE events
    /\ cpc' = "invoke"
    /\ UNCHANGED <<executor, cache_enabled, retry_cfg, files, cur, attempt, pending,
                   response, last_call, prev_call, ncalls, writes>>
    /\ UNCHANGED outsideCall

\* What the provider does when it is called
ProviderResults ==
    {[kind |-> "text", text |-> t, exc |-> NoException] : t \in ProviderTexts} \cup
    {[kind |-> "raised", text |-> TextNone, exc |-> e] : e \in ProviderErrors}

\* The operation with_retries runs: bootstrap.py:80-86 _generate (a
\* response-stage answer with empty text raises) or run.py:71 (the provider
\* call itself).  result is what the provider did.
operation_outcome(stage, result) ==
    IF /\ executor = "run_model_call"
       /\ result.kind = "text"
       /\ stage = "response"
       /\ (result.text.is_none \/ strip(result.text.chars) = <<>>)
    THEN [kind |-> "raised", text |-> TextNone, exc |-> EmptyResponseError]
    ELSE result

\* retry.py:121-132: fn() and the except branch
InvokeOperation ==
    /\ cpc = "invoke"
    /\ \E result \in ProviderResults :
        LET outcome == operation_outcome(cur.stage, result)
            invoked == Append(events,
                          [Event("invoke", attempt) EXCEPT
                              !.result = outcome.kind, !.text = result.text,
                              !.exc = outcome.exc])
        IN
        IF outcome.kind = "text"
        THEN /\ response' = LLMResponse(cur.request, outcome.text)
             /\ events' = invoked
             /\ cpc' = "store"
             /\ UNCHANGED <<cur, attempt, pending, last_call, prev_call, ncalls>>
        ELSE IF reraises(retry_cfg, attempt, outcome.exc)
        THEN Finish("raised", NoPayload, FALSE, outcome.exc, cur.lookup, invoked)
        ELSE /\ \E delay \in backoff_delays(retry_cfg, attempt, outcome.exc) :
                    pending' = [exc |-> outcome.exc, delay |-> delay]
             /\ events' = invoked
             /\ cpc' = "sleep"
             /\ UNCHANGED <<cur, attempt, response, last_call, prev_call, ncalls>>
    /\ UNCHANGED <<executor, cache_enabled, retry_cfg, files, writes>>
    /\ UNCHANGED outsideCall

\* retry.py:133 and the next iteration of the for loop
BackoffSleep ==
    /\ cpc = "sleep"
    /\ events' = Append(events, [Event("sleep", attempt) EXCEPT !.delay = pending.delay])
    /\ attempt' = attempt + 1
    /\ pending' = NoPending
    /\ cpc' = "before_attempt"
    /\ UNCHANGED <<executor, cache_enabled, retry_cfg, files, cur, response, last_call,
                   prev_call, ncalls, writes>>
    /\ UNCHANGED outsideCall

\* retry.py:134-135: the loop ends without an attempt (max_attempts <= 0)
LoopFallsThrough ==
    /\ cpc = "fall_through"
    /\ Finish("raised", NoPayload, FALSE, AssertionError, cur.lookup, events)
    /\ UNCHANGED <<executor, cache_enabled, retry_cfg, files, writes>>
    /\ UNCHANGED outsideCall

\* bootstrap.py:94-106 and run.py:75-85: build the payload, store it, return it
StoreAndReturn ==
    /\ cpc = "store"
    /\ LET payload == build_payload(response) IN
       IF executor = "run_model_call" /\ cur.stage = "response"
          /\ is_empty_response_payload(payload)
       THEN /\ Finish("raised", NoPayload, FALSE, EmptyResponseError, cur.lookup, events)
            /\ UNCHANGED <<files, writes>>
       ELSE /\ files' = DiskCache_set(cache_enabled, files, cur.key, payload)
            /\ writes' = IF cache_enabled
                         THEN writes \cup {[key |-> cur.key, payload |-> payload]}
                         ELSE writes
            /\ Finish("returned", payload, FALSE, NoException, cur.lookup, events)
    /\ UNCHANGED <<executor, cache_enabled, retry_cfg>>
    /\ UNCHANGED outsideCall

NextCall ==
    \/ StartCall
    \/ CacheLookup
    \/ BeforeAttempt
    \/ InvokeOperation
    \/ BackoffSleep
    \/ LoopFallsThrough
    \/ StoreAndReturn

\* The run part idle while the executor is exercised on its own
IdleRun ==
    /\ response_source = "sampled"
    /\ responses_by_key = {}
    /\ response_workers = 1
    /\ judge_workers = 1
    /\ pc = "done"
    /\ next_task_idx = 0
    /\ inflight = {}
    /\ done = {}
    /\ fstate = [di \in DisplayIndexes |-> Fut("none")]
    /\ blocked_candidates = {}
    /\ generation_results = <<>>
    /\ failed_items = <<>>
    /\ interrupted = FALSE
    /\ okAtInterrupt = {}
    /\ responses_rows = <<>>
    /\ jstate = [di \in DisplayIndexes |-> "none"]
    /\ ordered_results = {}
    /\ judgments_rows = <<>>
    /\ judge_interrupted = FALSE
    /\ summary = Unwritten
    /\ judge_item_results = [di \in DisplayIndexes |-> NoItemResult]
    /\ judge_failed_items = <<>>

\* ======================================================================
\* Per-minute rate limiter (specification SpecLimiter)
\* ======================================================================
NumThreads == 2
MaxWaits == 3
MaxIdleClock == 3

Threads == 1..NumThreads

\* Rates whose interval is a whole number of seconds
Rates == {20, 30, 60}

\* rate_limiter.py:17 self._interval_s
interval_s == 60 \div requests_per_minute

\* rate_limiter.py:26 wait_for
wait_for_of(allowed, now) == Max(0, allowed - now)

\* rate_limiter.py:27 scheduled
\* (mutant: the slot is counted from the present instant only)
scheduled_from_now(allowed, now) == now + interval_s

scheduled(allowed, now) == Max(allowed, now) + interval_s

\* rate_limiter.py:11-21 __init__
InitLimiter ==
    /\ requests_per_minute \in Rates
    /\ next_allowed = 0
    /\ lock = 0
    /\ clock = 0
    /\ lpc = [t \in Threads |-> "idle"]
    /\ wait_for = [t \in Threads |-> 0]
    /\ wake_at = [t \in Threads |-> 0]
    /\ admissions = <<>>
    /\ nwaits = 0

\* A limiter nobody calls
IdleLimiter ==
    /\ requests_per_minute = 60
    /\ next_allowed = 0
    /\ lock = 0
    /\ clock = 0
    /\ lpc = [t \in Threads |-> "idle"]
    /\ wait_for = [t \in Threads |-> 0]
    /\ wake_at = [t \in Threads |-> 0]
    /\ admissions = <<>>
    /\ nwaits = 0

\* rate_limiter.py:24 "with self._lock:" - a thread calls wait() and enters
\* the critical section
LimiterAcquire(t) ==
    /\ lpc[t] = "idle"
    /\ nwaits < MaxWaits
    /\ lock = 0
    /\ lock' = t
    /\ lpc' = [lpc EXCEPT ![t] = "locked"]
    /\ nwaits' = nwaits + 1
    /\ UNCHANGED <<requests_per_minute, next_allowed, clock, wait_for, wake_at, admissions>>
    /\ UNCHANGED outsideLimiter

\* rate_limiter.py:25-30: read the clock, reserve the slot, leave the
\* critical section, and return at once when there is nothing to wait for
LimiterSchedule(t) ==
    /\ lpc[t] = "locked"
    /\ lock = t
    /\ LET now == clock
           w == wait_for_of(next_allowed, now)
       IN
        /\ wait_for' = [wait_for EXCEPT ![t] = w]
        /\ next_allowed' = scheduled(next_allowed, now)
        /\ lock' = 0
        /\ IF w > 0
           THEN /\ lpc' = [lpc EXCEPT ![t] = "sleeping"]
                /\ wake_at' = [wake_at EXCEPT ![t] = now + w]
                /\ UNCHANGED admissions
           ELSE /\ lpc' = [lpc EXCEPT ![t] = "idle"]
                /\ admissions' = Append(admissions, now)
                /\ UNCHANGED wake_at
    /\ UNCHANGED <<requests_per_minute, clock, nwaits>>
    /\ UNCHANGED outsideLimiter

\* rate_limiter.py:29-30: self._sleep(wait_for) ends and wait() returns
LimiterWake(t) ==
    /\ lpc[t] = "sleeping"
    /\ wake_at[t] = clock
    /\ lpc' = [lpc EXCEPT ![t] = "idle"]
    /\ admissions' = Append(admissions, clock)
    /\ UNCHANGED <<requests_per_minute, next_allowed, lock, clock, wait_for, wake_at, nwaits>>
    /\ UNCHANGED outsideLimiter

\* One second passes.  The critical section takes no time and a sleep ends
\* exactly when it is due.
Tick ==
    /\ lock = 0
    /\ \A t \in Threads : lpc[t] = "sleeping" => wake_at[t] > clock
    /\ clock < MaxIdleClock \/ \E t \in Threads : lpc[t] = "sleeping"
    /\ clock' = clock + 1
    /\ UNCHANGED <<requests_per_minute, next_allowed, lock, lpc, wait_for, wake_at,
                   admissions, nwaits>>
    /\ UNCHANGED outsideLimiter

NextLimiter ==
    \/ \E t \in Threads : LimiterAcquire(t)
    \/ \E t \in Threads : LimiterSchedule(t)
    \/ \E t \in Threads : LimiterWake(t)
    \/ Tick

\* ======================================================================
\* Backoff computation of with_retries (specification SpecBackoff)
\* ======================================================================
\* Values of a retry_after attribute, of a Retry-After header: missing, not
\* a number, negative, zero, below and above max_delay_s
HintValues == {NoneAttr, Junk, Num(0 - 1), Num(0), Num(3), Num(99)}

\* Numbers the regular expression of retry.py:106 finds in a message
MessageHints == {NoneAttr, Num(4)}

RaisedErrors ==
    {[base EXCEPT !.retry_after = a, !.header_retry_after = h, !.message_retry_after = m] :
        base \in {[Exception(<<"too", "many", "requests">>) EXCEPT !.status_code = Num(429)],
                  ValidationError},
        a \in HintValues, h \in HintValues, m \in MessageHints}

\* The operation has just raised b_exc on attempt b_attempt
InitBackoff ==
    /\ b_exc \in RaisedErrors
    /\ b_retry \in RetryConfigs
    /\ b_attempt \in 1..MaxAttempts
    /\ b_attempt <= b_retry.max_attempts
    /\ b_pc = "raised"
    /\ b_delay = 0

\* No retry loop running
IdleBackoff ==
    /\ b_exc = NoException
    /\ b_retry = [max_attempts |-> 0, base_delay_s |-> 2, max_delay_s |-> 5]
    /\ b_attempt = 0
    /\ b_pc = "idle"
    /\ b_delay = 0

\* retry.py:125-126: the exception is re-raised
BackoffReraise ==
    /\ b_pc = "raised"
    /\ reraises(b_retry, b_attempt, b_exc)
    /\ b_pc' = "reraised"
    /\ UNCHANGED <<b_exc, b_retry, b_attempt, b_delay>>
    /\ UNCHANGED outsideBackoff

\* retry.py:127-133: the delay is computed and slept
BackoffCompute ==
    /\ b_pc = "raised"
    /\ ~reraises(b_retry, b_attempt, b_exc)
    /\ \E delay \in backoff_delays(b_retry, b_attempt, b_exc) : b_delay' = delay
    /\ b_pc' = "slept"
    /\ UNCHANGED <<b_exc, b_retry, b_attempt>>
    /\ UNCHANGED outsideBackoff

NextBackoff ==
    \/ BackoffReraise
    \/ BackoffCompute

\* ======================================================================
\* Judging of one item (specification SpecJudgeItem): src/runner/judging.py,
\* src/judge/judge.py, src/judge/mcq.py, src/runner/helpers.py
\* ======================================================================
\* the item under judgment in the item specification
ITEM_DISPLAY_INDEX == 1

InitItem ==
    /\ j_example \in JudgedExamples
    /\ j_threshold \in PassThresholds
    /\ j_policy \in Policies
    /\ j_pc = "dispatch"
    /\ j_pending = {}
    /\ j_results = <<>>
    /\ j_item = NoItemResult
    /\ j_call = NoCallOutcome

IdleItem ==
    /\ j_example = Example("reference", <<>>, FALSE)
    /\ j_threshold = Frac(7, 10)
    /\ j_policy = POLICY_DEFAULT
    /\ j_pc = "idle"
    /\ j_pending = {}
    /\ j_results = <<>>
    /\ j_item = NoItemResult
    /\ j_call = NoCallOutcome

ItemReturns(result) ==
    /\ j_item' = result
    /\ j_pc' = "returned"
    /\ UNCHANGED <<j_example, j_threshold, j_policy>>
    /\ UNCHANGED outsideItem

\* judging.py:528-536: the deterministic grader runs; without
\* metadata.correct_choice_ids it raises ValueError (mcq.py:45-48)
HandleMcqJudgment ==
    /\ j_pc = "dispatch"
    /\ dispatch_judge_strategy(j_example) = "mcq"
    /\ \/ /\ j_example.has_choice_ids
          /\ \E candidate_text \in McqTexts :
                ItemReturns(handle_mcq_judgment(candidate_text, j_threshold))
       \/ /\ ~j_example.has_choice_ids
          /\ ItemReturns(build_unexpected_judge_item_result(ITEM_DISPLAY_INDEX,
                                                            MISSING_CHOICE_IDS))
    /\ UNCHANGED <<j_pending, j_results, j_call>>

\* judging.py:551-562
HandleSingleJudge ==
    /\ j_pc = "dispatch"
    /\ dispatch_judge_strategy(j_example) = "single_judge"
    /\ \E outcome \in CallOutcomes(ScoreTexts \cup {Garbage}) :
            /\ j_call' = outcome
            /\ ItemReturns(handle_single_judge(ITEM_DISPLAY_INDEX, j_example, j_threshold,
                                               outcome, j_policy))
    /\ UNCHANGED <<j_pending, j_results>>

\* judging.py:563-570: a handler raises outside _run_judge_call (a message
\* builder, build_request, a provider lookup)
JudgeHandlerRaises ==
    /\ j_pc = "dispatch"
    /\ dispatch_judge_strategy(j_example) # "mcq"
    /\ ItemReturns(build_unexpected_judge_item_result(ITEM_DISPLAY_INDEX, HANDLER_ERROR))
    /\ UNCHANGED <<j_pending, j_results, j_call>>

\* judging.py:268-285: one future per rubric criterion
SubmitRubricCriteria ==
    /\ j_pc = "dispatch"
    /\ dispatch_judge_strategy(j_example) = "rubric_multi_judge"
    /\ j_pending' = 1..Len(j_example.rubric)
    /\ j_pc' = "criteria"
    /\ UNCHANGED <<j_example, j_threshold, j_policy, j_results, j_item, j_call>>
    /\ UNCHANGED outsideItem

\* judging.py:286: as_completed yields the future of criterion idx, which
\* holds the result of _run_rubric_criterion
RubricCriterionReturns(idx) ==
    /\ j_pc = "criteria"
    /\ idx \in j_pending
    /\ \E outcome \in CallOutcomes(GradeTexts \cup {Garbage}) :
            j_results' = Append(j_results, run_rubric_criterion(idx, outcome, j_threshold))
    /\ j_pending' = j_pending \ {idx}
    /\ UNCHANGED <<j_example, j_threshold, j_policy, j_pc, j_item, j_call>>
    /\ UNCHANGED outsideItem

\* judging.py:286, 563-570: the future of criterion idx holds an exception
\* raised outside _run_judge_call; future.result() raises it, the pool is
\* joined, and the exception reaches the except clause of the item
RubricCriterionRaises(idx) ==
    /\ j_pc = "criteria"
    /\ idx \in j_pending
    /\ ItemReturns(build_unexpected_judge_item_result(ITEM_DISPLAY_INDEX, HANDLER_ERROR))
    /\ UNCHANGED <<j_pending, j_results, j_call>>

\* judging.py:288-289, 449-510: every criterion has returned
RubricItemReturns ==
    /\ j_pc = "criteria"
    /\ j_pending = {}
    /\ ItemReturns(handle_rubric_multi_judge(ITEM_DISPLAY_INDEX, j_example, j_threshold,
                                             j_results))
    /\ UNCHANGED <<j_pending, j_results, j_call>>

NextItem ==
    \/ HandleMcqJudgment
    \/ HandleSingleJudge
    \/ JudgeHandlerRaises
    \/ SubmitRubricCriteria
    \/ \E idx \in 1..MaxCriteria : RubricCriterionReturns(idx)
    \/ \E idx \in 1..MaxCriteria : RubricCriterionRaises(idx)
    \/ RubricItemReturns

\* ======================================================================
\* Reconciliation of a base run with a backfill run (specification
\* SpecReconcile): runner/reconcile.py, scripts/merge_backfill.py
\* ======================================================================

\* The dataset of an example.  Names are modelled by their rank in string
\* order; the datasets are ranked against the order of the example ids.
dataset_of(example_id) == 1 + (example_id % 2)

\* a row of responses.jsonl or judgments.jsonl, by what the merge reads of it
MergeRow(example_id, candidate_name, run_id) ==
    [dataset |-> dataset_of(example_id), example_id |-> example_id,
     candidate_name |-> candidate_name, run_id |-> run_id]

\* reconcile.py:9-10
row_key(row) == <<row.dataset, row.example_id, row.candidate_name>>

\* order of tuples, as sorted() compares them
KeyLess(a, b) ==
    \/ a[1] < b[1]
    \/ a[1] = b[1] /\ a[2] < b[2]
    \/ a[1] = b[1] /\ a[2] = b[2] /\ a[3] < b[3]

\* (mutant: the keys are left in an order that is not the sorted one)
RECURSIVE sorted_keys_descending(_)
sorted_keys_descending(keys) ==
    IF keys = {}
    THEN <<>>
    ELSE LET last == CHOOSE k \in keys : \A o \in keys \ {k} : KeyLess(o, k)
         IN  <<last>> \o sorted_keys_descending(keys \ {last})

\* reconcile.py:23 sorted(merged.keys())
RECURSIVE sorted_keys(_)
sorted_keys(keys) ==
    IF keys = {}
    THEN <<>>
    ELSE LET first == CHOOSE k \in keys : \A o \in keys \ {k} : KeyLess(k, o)
         IN  <<first>> \o sorted_keys(keys \ {first})

\* merged[key] = row
dict_set(d, key, row) ==
    [k \in DOMAIN d \cup {key} |-> IF k = key THEN row ELSE d[k]]

\* reconcile.py:17: {row_key(row): row for row in base_rows}, the first i rows
RECURSIVE index_rows(_, _)
index_rows(rows, i) ==
    IF i = 0 THEN <<>> ELSE dict_set(index_rows(rows, i - 1), row_key(rows[i]), rows[i])

\* (mutant: a base row is kept when the patch has a row of the same key)
RECURSIVE overlay_patch_keeps_base(_, _, _)
overlay_patch_keeps_base(base_rows, patch_rows, i) ==
    IF i = 0
    THEN [merged |-> index_rows(base_rows, Len(base_rows)), replaced |-> 0]
    ELSE LET before == overlay_patch_keeps_base(base_rows, patch_rows, i - 1)
             key == row_key(patch_rows[i])
         IN  [merged |-> IF key \in DOMAIN before.merged
                         THEN before.merged
                         ELSE dict_set(before.merged, key, patch_rows[i]),
              replaced |-> before.replaced + (IF key \in DOMAIN before.merged THEN 1 ELSE 0)]

\* reconcile.py:17-22: merged and replaced after the first i patch rows
RECURSIVE overlay_patch(_, _, _)
overlay_patch(base_rows, patch_rows, i) ==
    IF i = 0
    THEN [merged |-> index_rows(base_rows, Len(base_rows)), replaced |-> 0]
    ELSE LET before == overlay_patch(base_rows, patch_rows, i - 1)
             key == row_key(patch_rows[i])
         IN  [merged |-> dict_set(before.merged, key, patch_rows[i]),
              replaced |-> before.replaced + (IF key \in DOMAIN before.merged THEN 1 ELSE 0)]

\* reconcile.py:13-24
overlay_rows(base_rows, patch_rows) ==
    LET final == overlay_patch(base_rows, patch_rows, Len(patch_rows))
        ordered_keys == sorted_keys(DOMAIN final.merged)
    IN  [rows |-> [i \in 1..Len(ordered_keys) |-> final.merged[ordered_keys[i]]],
         replaced |-> final.replaced]

\* (mutant: only the first candidate of run_config.json is expected)
expected_keys_first_candidate(base_examples, candidate_names) ==
    {<<dataset_of(e), e, c>> :
        e \in base_examples, c \in {n \in candidate_names : \A o \in candidate_names : n <= o}}

\* merge_backfill.py:29-46 _expected_keys: the examples of examples.jsonl
\* times the candidates of run_config.json
expected_keys(base_examples, candidate_names) ==
    {<<dataset_of(e), e, c>> : e \in base_examples, c \in candidate_names}

\* merge_backfill.py:49-59
missing_failure_items(keys, stage) ==
    [i \in 1..Len(keys) |->
        [dataset |-> keys[i][1], example_id |-> keys[i][2], candidate_name |-> keys[i][3],
         stage |-> stage]]

RESPONSE_MISSING == "response_missing_after_merge"
JUDGE_MISSING == "judge_missing_after_merge"

\* merge_backfill.py:62-124 merge_run_outputs: summary.json, the merged row
\* files and reconciliation_report.json
merge_run_outputs(base, patch) ==
    LET responses == overlay_rows(base.responses, patch.responses)
        judgments == overlay_rows(base.judgments, patch.judgments)
        expected_pairs == expected_keys(Examples, Candidates)
        response_pairs == {row_key(responses.rows[i]) : i \in 1..Len(responses.rows)}
        judgment_pairs == {row_key(judgments.rows[i]) : i \in 1..Len(judgments.rows)}
        missing_response_keys == sorted_keys(expected_pairs \ response_pairs)
        missing_judgment_keys == sorted_keys(expected_pairs \ judgment_pairs)
        failed == missing_failure_items(missing_response_keys, RESPONSE_MISSING)
                      \o missing_failure_items(missing_judgment_keys, JUDGE_MISSING)
    IN  [responses |-> responses.rows,
         judgments |-> judgments.rows,
         failed_items |-> failed,
         num_failures |-> Len(failed),
         run_status |-> IF failed # <<>> THEN "degraded" ELSE "completed",
         replaced_responses |-> responses.replaced,
         replaced_judgments |-> judgments.replaced,
         added_responses |-> Len(responses.rows) - Len(base.responses),
         added_judgments |-> Len(judgments.rows) - Len(base.judgments)]

\* The rows a run writes for a set of tasks: in display_index order, which is
\* candidate-major (generation.py:474-475, judging.py:813-825)
run_rows(tasks, run_id) ==
    LET all == [i \in DisplayIndexes |->
                    MergeRow(generation_tasks[i].example, generation_tasks[i].candidate, run_id)]
    IN  SelectSeq(all, LAMBDA row :
            \E i \in tasks : /\ generation_tasks[i].example = row.example_id
                             /\ generation_tasks[i].candidate = row.candidate_name)

\* outputs/ of a run: a response row for the tasks that were generated and a
\* judgment row for those of them that were judged (all of them unless the
\* judging was interrupted)
RunOutputs(run_id) ==
    UNION {{[responses |-> run_rows(generated, run_id),
              judgments |-> run_rows(judged, run_id)] : judged \in SUBSET generated} :
           generated \in SUBSET DisplayIndexes}

\* outputs/ of a run whose judging ran to its end: one judgment row per
\* response row
CompletedRunOutputs(run_id) ==
    {[responses |-> run_rows(generated, run_id),
      judgments |-> run_rows(generated, run_id)] : generated \in SUBSET DisplayIndexes}

NoMergeOutput ==
    [responses |-> <<>>, judgments |-> <<>>, failed_items |-> <<>>, num_failures |-> 0,
     run_status |-> "none", replaced_responses |-> 0, replaced_judgments |-> 0,
     added_responses |-> 0, added_judgments |-> 0]

InitMerge ==
    /\ m_base \in RunOutputs("base")
    /\ m_patch \in CompletedRunOutputs("patch")
    /\ m_pc = "read"
    /\ m_out = NoMergeOutput

IdleMerge ==
    /\ m_base = [responses |-> <<>>, judgments |-> <<>>]
    /\ m_patch = [responses |-> <<>>, judgments |-> <<>>]
    /\ m_pc = "idle"
    /\ m_out = NoMergeOutput

\* merge_backfill.py:62-124
MergeRunOutputs ==
    /\ m_pc = "read"
    /\ m_out' = merge_run_outputs(m_base, m_patch)
    /\ m_pc' = "written"
    /\ UNCHANGED <<m_base, m_patch>>
    /\ UNCHANGED outsideMerge

NextMerge == MergeRunOutputs

\* ======================================================================
\* merge_run_outputs on run directories (specification SpecMergeDirs):
\* scripts/merge_backfill.py
\* ======================================================================

\* data/runs/<run id>: the base run, the backfill run and a run id of the
\* form <base>_repaired_<timestamp>, the default of --out-run-id
BASE_RUN == "base"
BACKFILL_RUN == "patch"
REPAIRED_RUN == "base_repaired"
RunIds == {BASE_RUN, BACKFILL_RUN, REPAIRED_RUN}

\* trace.jsonl of a run: a row for every response and judgment it wrote
trace_rows(outputs) ==
    [i \in 1..Len(outputs.responses) |-> [stage |-> "response", row |-> outputs.responses[i]]]
        \o [i \in 1..Len(outputs.judgments) |-> [stage |-> "judge", row |-> outputs.judgments[i]]]

\* the files under outputs/ of a run directory
RunDirectory(outputs, run_status) ==
    [responses |-> outputs.responses, judgments |-> outputs.judgments,
     trace |-> trace_rows(outputs), run_status |-> run_status]

NoRunDirectory == [responses |-> <<>>, judgments |-> <<>>, trace |-> <<>>, run_status |-> "none"]

\* (mutant: the merged trace holds one row per key and stage, the last one)
merged_trace_deduplicated(base_trace, patch_trace) ==
    SelectSeq(base_trace,
              LAMBDA r : \A i \in 1..Len(patch_trace) :
                            ~(patch_trace[i].stage = r.stage
                                /\ row_key(patch_trace[i].row) = row_key(r.row)))
        \o patch_trace

\* merge_backfill.py:79 merged_trace = [*base_trace, *patch_trace]
merged_trace(base_trace, patch_trace) == base_trace \o patch_trace

\* merge_backfill.py:161-168 main: the run ids of the command line; nothing
\* compares --out-run-id with the other two
InitDirs ==
    /\ \E base \in RunOutputs(BASE_RUN), patch \in CompletedRunOutputs(BACKFILL_RUN),
            base_status \in {"completed", "interrupted"} :
          d_runs = [id \in RunIds |->
                       IF id = BASE_RUN THEN RunDirectory(base, base_status)
                       ELSE IF id = BACKFILL_RUN THEN RunDirectory(patch, "completed")
                       ELSE NoRunDirectory]
    /\ d_args \in [base : {BASE_RUN}, backfill : {BACKFILL_RUN}, out : RunIds]
    /\ d_pc = "call"

IdleDirs ==
    /\ d_runs = [id \in RunIds |-> NoRunDirectory]
    /\ d_args = [base |-> BASE_RUN, backfill |-> BACKFILL_RUN, out |-> REPAIRED_RUN]
    /\ d_pc = "idle"

\* merge_backfill.py:62-150: every input file is read (66-75), then the
\* files of out_run_dir/outputs are written (139-146)
MergeIntoRunDirectory ==
    /\ d_pc = "call"
    /\ LET base == d_runs[d_args.base]
           patch == d_runs[d_args.backfill]
           merged == merge_run_outputs(base, patch)
       IN d_runs' = [d_runs EXCEPT ![d_args.out] =
                        [responses |-> merged.responses, judgments |-> merged.judgments,
                         trace |-> merged_trace(base.trace, patch.trace),
                         run_status |-> merged.run_status]]
    /\ d_pc' = "returned"
    /\ UNCHANGED d_args
    /\ UNCHANGED outsideDirs

NextMergeDirs == MergeIntoRunDirectory

\* ======================================================================
\* The files of one cache key, step by step (specification SpecCacheFiles):
\* cache.py DiskCache.set, get and delete
\* ======================================================================

FILE_KEY == "k"

\* cache.py:29-30 _path_for_key
path_for_key(key) == <<key, ".json">>

\* (mutant: set writes the entry in place)
tmp_path_for_key_in_place(key) == <<key, ".json">>

\* cache.py:53 path.with_suffix(".tmp")
tmp_path_for_key(key) == <<key, ".tmp">>

\* the values the writer sets
SetValues == {SeedPayload(Text(<<"c">>)), SeedPayload(Text(<<"d">>))}

\* cache.py:54-55: the file after the first n pieces of json.dump(value)
\* have reached it; it decodes only when all of them have
WrittenFile(value, n) ==
    IF n = Len(json_dump(value))
    THEN JsonFile(value)
    ELSE [state |-> "corrupt", doc |-> SubSeq(json_dump(value), 1, n)]

\* cache.py:56 tmp_path.replace(path): an atomic rename
replace(dir, from, to) ==
    [name \in DOMAIN dir |->
        IF name = to THEN dir[from] ELSE IF name = from THEN AbsentFile ELSE dir[name]]

NoGetResult == [found |-> FALSE, value |-> NoPayload, raises |-> FALSE]

IdleSet == [pc |-> "idle", value |-> NoPayload, written |-> 0, old |-> AbsentFile]

IdleGet ==
    [pc |-> "idle", result |-> NoGetResult, returned |-> FALSE, undecodable |-> FALSE,
     before |-> <<>>, dirty |-> FALSE]

NoHistory == [ops |-> <<>>, before |-> AbsentFile, after |-> AbsentFile]

\* a completed set or delete, for the history
Completed(op, before, after) ==
    [ops |-> IF Len(c_hist.ops) < 2 THEN Append(c_hist.ops, op)
             ELSE <<c_hist.ops[2], op>>,
     before |-> before, after |-> after]

\* a change of the entry while a get is under way
Dirtied == IF c_get.pc = "idle" THEN c_get ELSE [c_get EXCEPT !.dirty = TRUE]

InitFiles ==
    /\ c_dir \in {[name \in {path_for_key(FILE_KEY), tmp_path_for_key(FILE_KEY)} |->
                      IF name = path_for_key(FILE_KEY) THEN f ELSE AbsentFile] :
                  f \in {AbsentFile} \cup {JsonFile(v) : v \in SetValues}}
    /\ c_set = IdleSet
    /\ c_get = IdleGet
    /\ c_hist = NoHistory

\* The cache directory of an earlier run, with an entry that does not decode:
\* a text cut short or overwritten, or bytes that are no text at all
InitDamagedFiles ==
    /\ c_dir \in {[name \in {path_for_key(FILE_KEY), tmp_path_for_key(FILE_KEY)} |->
                      IF name = path_for_key(FILE_KEY) THEN f ELSE AbsentFile] :
                  f \in {CorruptFile, GarbledFile,
                         WrittenFile(SeedPayload(Text(<<"c">>)), 2)}}
    /\ c_set = IdleSet
    /\ c_get = IdleGet
    /\ c_hist = NoHistory

IdleFiles ==
    /\ c_dir = [name \in {path_for_key(FILE_KEY), tmp_path_for_key(FILE_KEY)} |-> AbsentFile]
    /\ c_set = [IdleSet EXCEPT !.pc = "off"]
    /\ c_get = [IdleGet EXCEPT !.pc = "off"]
    /\ c_hist = NoHistory

\* cache.py:50-54: set(key, value) opens <key>.tmp for writing, which creates
\* or truncates it
SetOpenTmp(value) ==
    /\ c_set.pc = "idle"
    /\ c_set' = [pc |-> "writing", value |-> value, written |-> 0,
                 old |-> c_dir[path_for_key(FILE_KEY)]]
    /\ c_dir' = [c_dir EXCEPT ![tmp_path_for_key(FILE_KEY)] = WrittenFile(value, 0)]
    /\ c_get' = IF tmp_path_for_key(FILE_KEY) = path_for_key(FILE_KEY) THEN Dirtied ELSE c_get
    /\ UNCHANGED c_hist
    /\ UNCHANGED outsideFiles

\* cache.py:55: one more piece of json.dump reaches the file
SetWritePiece ==
    /\ c_set.pc = "writing"
    /\ c_set.written < Len(json_dump(c_set.value))
    /\ c_set' = [c_set EXCEPT !.written = @ + 1]
    /\ c_dir' = [c_dir EXCEPT ![tmp_path_for_key(FILE_KEY)] =
                                  WrittenFile(c_set.value, c_set.written + 1)]
    /\ UNCHANGED <<c_get, c_hist>>
    /\ UNCHANGED outsideFiles

\* cache.py:54-55: leaving the with block flushes what is left and closes
SetCloseTmp ==
    /\ c_set.pc = "writing"
    /\ c_set' = [c_set EXCEPT !.pc = "closed", !.written = Len(json_dump(c_set.value))]
    /\ c_dir' = [c_dir EXCEPT ![tmp_path_for_key(FILE_KEY)] = JsonFile(c_set.value)]
    /\ UNCHANGED <<c_get, c_hist>>
    /\ UNCHANGED outsideFiles

\* cache.py:56: tmp_path.replace(path), and set returns
SetReplace ==
    /\ c_set.pc = "closed"
    /\ c_dir' = replace(c_dir, tmp_path_for_key(FILE_KEY), path_for_key(FILE_KEY))
    /\ c_set' = [c_set EXCEPT !.pc = "idle"]
    /\ c_hist' = Completed("set", c_dir, c_dir')
    /\ c_get' = Dirtied
    /\ UNCHANGED outsideFiles

\* the process dies inside set: the files stay as they are
SetCrash ==
    /\ c_set.pc \in {"writing", "closed"}
    /\ c_set' = [c_set EXCEPT !.pc = "crashed"]
    /\ UNCHANGED <<c_dir, c_get, c_hist>>
    /\ UNCHANGED outsideFiles

\* the next run uses the same cache directory
Restart ==
    /\ c_set.pc = "crashed"
    /\ c_set' = [c_set EXCEPT !.pc = "idle"]
    /\ UNCHANGED <<c_dir, c_get, c_hist>>
    /\ UNCHANGED outsideFiles

\* bootstrap.py:76 cache.delete(key), by the thread that also sets
DeleteEntry ==
    /\ c_set.pc = "idle"
    /\ c_dir' = DiskCache_delete(TRUE, c_dir, path_for_key(FILE_KEY))
    /\ c_hist' = Completed("delete", c_dir, c_dir')
    /\ c_get' = Dirtied
    /\ UNCHANGED c_set
    /\ UNCHANGED outsideFiles

\* cache.py:35-37: get(key) finds no file and returns None, or goes on to open it
GetExists ==
    /\ c_get.pc = "idle"
    /\ IF c_dir[path_for_key(FILE_KEY)].state = "absent"
       THEN c_get' = [pc |-> "idle", result |-> NoGetResult, returned |-> TRUE,
                      undecodable |-> FALSE, before |-> c_hist.ops, dirty |-> FALSE]
       ELSE c_get' = [pc |-> "open", result |-> NoGetResult, returned |-> FALSE,
                      undecodable |-> FALSE, before |-> c_hist.ops, dirty |-> FALSE]
    /\ UNCHANGED <<c_dir, c_set, c_hist>>
    /\ UNCHANGED outsideFiles

\* cache.py:38-47: open and json.load; an entry that does not decode, or that
\* has gone, gives None, and the undecodable entry is unlinked
GetLoad ==
    /\ c_get.pc = "open"
    /\ c_get' = [c_get EXCEPT
                    !.pc = "idle",
                    !.result = DiskCache_get(TRUE, c_dir, path_for_key(FILE_KEY)),
                    !.returned = TRUE,
                    !.undecodable = c_dir[path_for_key(FILE_KEY)].state \in {"corrupt", "bytes"}]
    /\ c_dir' = DiskCache_get_files(TRUE, c_dir, path_for_key(FILE_KEY))
    /\ UNCHANGED <<c_set, c_hist>>
    /\ UNCHANGED outsideFiles

NextFiles ==
    \/ \E value \in SetValues : SetOpenTmp(value)
    \/ SetWritePiece
    \/ SetCloseTmp
    \/ SetReplace
    \/ SetCrash
    \/ Restart
    \/ DeleteEntry
    \/ GetExists
    \/ GetLoad

\* ======================================================================
\* Two executor calls with the same cache key in two worker threads
\* (specification SpecSameKey): runner/bootstrap.py run_model_call over
\* cache.py DiskCache.get and DiskCache.set, on a POSIX file system where a
\* name refers to an inode and an open file follows its inode
\* ======================================================================

Callers == {1, 2}

\* the answers the provider gives to the two calls
SameKeyTexts == {Text(<<"c">>), Text(<<"d">>)}

\* pathlib's Path.replace on a source that is not there
FileNotFoundError == Exception(<<"FileNotFoundError">>)

NoInode == 0

\* the bytes between the end of a file and a write beyond it
HOLE == <<"hole", "hole">>

CallNotStarted ==
    [pc |-> "off", payload |-> NoPayload, fd |-> NoInode, offset |-> 0,
     outcome |-> "", cache_hit |-> FALSE, exc |-> NoException]

\* what open(path) reads through a name: nothing, a JSON document or a text
\* json.load rejects
FilesByName(names, inodes) ==
    [name \in DOMAIN names |->
        IF names[name] = NoInode THEN AbsentFile
        ELSE IF \E text \in SameKeyTexts : inodes[names[name]] = json_dump(SeedPayload(text))
        THEN [state |-> "json", doc |-> inodes[names[name]]]
        ELSE [state |-> "corrupt", doc |-> inodes[names[name]]]]

RECURSIVE Holes(_)
Holes(n) == IF n <= 0 THEN <<>> ELSE <<HOLE>> \o Holes(n - 1)

\* write(2) of pieces at an offset of the open file: the file grows as needed
write_at(content, offset, pieces) ==
    LET padded == IF Len(content) < offset
                  THEN content \o Holes(offset - Len(content))
                  ELSE content
        upto == offset + Len(pieces)
    IN
    SubSeq(padded, 1, offset) \o pieces \o
        (IF Len(padded) > upto THEN SubSeq(padded, upto + 1, Len(padded)) ELSE <<>>)

InitPair ==
    /\ w_names = [name \in {path_for_key(FILE_KEY), tmp_path_for_key(FILE_KEY)} |-> NoInode]
    /\ w_inodes = <<>>
    /\ w_call = [t \in Callers |-> [CallNotStarted EXCEPT !.pc = "lookup"]]

IdlePair ==
    /\ w_names = [name \in {path_for_key(FILE_KEY), tmp_path_for_key(FILE_KEY)} |-> NoInode]
    /\ w_inodes = <<>>
    /\ w_call = [t \in Callers |-> CallNotStarted]

\* bootstrap.py:72-78: cache.get(key); a usable entry is returned as a hit
SameKeyLookup(t) ==
    /\ w_call[t].pc = "lookup"
    /\ LET fs == FilesByName(w_names, w_inodes)
           cached == DiskCache_get(TRUE, fs, path_for_key(FILE_KEY))
           after_get == DiskCache_get_files(TRUE, fs, path_for_key(FILE_KEY))
       IN
       /\ w_names' = [name \in DOMAIN w_names |->
                         IF after_get[name].state = "absent" THEN NoInode ELSE w_names[name]]
       /\ IF cached.found /\ ~quarantines("response", cached.value)
          THEN w_call' = [w_call EXCEPT ![t] = [@ EXCEPT !.pc = "done", !.payload = cached.value,
                                                         !.outcome = "returned",
                                                         !.cache_hit = TRUE]]
          ELSE w_call' = [w_call EXCEPT ![t] = [@ EXCEPT !.pc = "generate"]]
    /\ UNCHANGED w_inodes
    /\ UNCHANGED outsidePair

\* bootstrap.py:80-102: the provider answers and the payload is built
SameKeyGenerate(t, text) ==
    /\ w_call[t].pc = "generate"
    /\ w_call' = [w_call EXCEPT ![t] = [@ EXCEPT !.pc = "open", !.payload = SeedPayload(text)]]
    /\ UNCHANGED <<w_names, w_inodes>>
    /\ UNCHANGED outsidePair

\* cache.py:53-54: open(tmp_path, "w") creates the file or truncates the one
\* the name refers to
SameKeyOpenTmp(t) ==
    /\ w_call[t].pc = "open"
    /\ LET tmp == tmp_path_for_key(FILE_KEY)
           inode == IF w_names[tmp] = NoInode THEN Len(w_inodes) + 1 ELSE w_names[tmp]
       IN
       /\ w_inodes' = IF w_names[tmp] = NoInode THEN Append(w_inodes, <<>>)
                      ELSE [w_inodes EXCEPT ![inode] = <<>>]
       /\ w_names' = [w_names EXCEPT ![tmp] = inode]
       /\ w_call' = [w_call EXCEPT ![t] = [@ EXCEPT !.pc = "writing", !.fd = inode,
                                                      !.offset = 0]]
    /\ UNCHANGED outsidePair

\* cache.py:55: the buffer of the file fills and one piece of json.dump is written
SameKeyWritePiece(t) ==
    /\ w_call[t].pc = "writing"
    /\ w_call[t].offset < Len(json_dump(w_call[t].payload))
    /\ w_inodes' = [w_inodes EXCEPT ![w_call[t].fd] =
                       write_at(@, w_call[t].offset,
                                <<json_dump(w_call[t].payload)[w_call[t].offset + 1]>>)]
    /\ w_call' = [w_call EXCEPT ![t] = [@ EXCEPT !.offset = @ + 1]]
    /\ UNCHANGED w_names
    /\ UNCHANGED outsidePair

\* cache.py:54-55: leaving the with block writes what is left and closes
SameKeyCloseTmp(t) ==
    /\ w_call[t].pc = "writing"
    /\ LET doc == json_dump(w_call[t].payload) IN
       /\ w_inodes' = [w_inodes EXCEPT ![w_call[t].fd] =
                          write_at(@, w_call[t].offset,
                                   SubSeq(doc, w_call[t].offset + 1, Len(doc)))]
       /\ w_call' = [w_call EXCEPT ![t] = [@ EXCEPT !.pc = "closed", !.offset = Len(doc)]]
    /\ UNCHANGED w_names
    /\ UNCHANGED outsidePair

\* cache.py:56 and bootstrap.py:105-106: tmp_path.replace(path) renames the
\* file, or raises FileNotFoundError when the name is gone; then the
\* executor returns (payload, False, key)
SameKeyReplace(t) ==
    /\ w_call[t].pc = "closed"
    /\ LET tmp == tmp_path_for_key(FILE_KEY) IN
       IF w_names[tmp] = NoInode
       THEN /\ w_call' = [w_call EXCEPT ![t] = [@ EXCEPT !.pc = "done", !.outcome = "raised",
                                                           !.exc = FileNotFoundError]]
            /\ UNCHANGED w_names
       ELSE /\ w_names' = [name \in DOMAIN w_names |->
                              IF name = path_for_key(FILE_KEY) THEN w_names[tmp]
                              ELSE IF name = tmp THEN NoInode ELSE w_names[name]]
            /\ w_call' = [w_call EXCEPT ![t] = [@ EXCEPT !.pc = "done", !.outcome = "returned"]]
    /\ UNCHANGED w_inodes
    /\ UNCHANGED outsidePair

NextSameKey ==
    \/ \E t \in Callers : SameKeyLookup(t)
    \/ \E t \in Callers, text \in SameKeyTexts : SameKeyGenerate(t, text)
    \/ \E t \in Callers : SameKeyOpenTmp(t)
    \/ \E t \in Callers : SameKeyWritePiece(t)
    \/ \E t \in Callers : SameKeyCloseTmp(t)
    \/ \E t \in Callers : SameKeyReplace(t)

\* ======================================================================
\* Judge concurrency budget (specification SpecJudgeBudget)
\* ======================================================================
MaxJudgeBudget == 4
MaxJudgedItems == 3

\* (mutant: every item's criterion pool gets the whole budget)
criterion_workers_whole_budget == Max(1, judge_workers)

\* judging.py:767
criterion_workers == Max(1, judge_workers \div item_workers)

\* the judge calls item di makes: one per rubric criterion
\* (judging.py:269-285), one for the single free-form judge (judging.py:596-640)
CallsOf(di) == 1..(IF q_rubric[di] = 0 THEN 1 ELSE q_rubric[di])

\* judging.py:267: the size of the item's criterion pool; the single judge
\* call is made by the item's own thread
worker_count(di) ==
    IF q_rubric[di] = 0 THEN 1 ELSE Min(criterion_workers, q_rubric[di])

\* The judging phase is entered after a generation phase that produced n
\* responses; the other tasks failed with an error that is not candidate-fatal
JudgePhaseEntered(n) ==
    /\ response_source = "sampled"
    /\ responses_by_key = {}
    /\ response_workers = 1
    /\ pc = "judge_submit"
    /\ next_task_idx = total_items
    /\ inflight = {}
    /\ done = {}
    /\ fstate = [di \in DisplayIndexes |->
                    IF di <= n THEN Fut("ok") ELSE Raised({INFERENCE_PROFILE})]
    /\ blocked_candidates = {}
    /\ generation_results = [i \in 1..n |-> i]
    /\ failed_items = [i \in 1..(total_items - n) |->
                          build_generation_failure_item(n + i, {INFERENCE_PROFILE})]
    /\ interrupted = FALSE
    /\ okAtInterrupt = {}
    /\ responses_rows = [i \in 1..n |-> i]
    /\ jstate = [di \in DisplayIndexes |-> "none"]
    /\ ordered_results = {}
    /\ judgments_rows = <<>>
    /\ judge_interrupted = FALSE
    /\ summary = Unwritten
    /\ judge_item_results = [di \in DisplayIndexes |-> NoItemResult]
    /\ judge_failed_items = <<>>

InitBudget ==
    /\ judge_workers \in 1..MaxJudgeBudget
    /\ \E n \in 0..Min(MaxJudgedItems, total_items) :
        /\ JudgePhaseEntered(n)
        /\ q_rubric \in {f \in [DisplayIndexes -> 0..MaxCriteria] :
                            \A di \in DisplayIndexes : di > n => f[di] = 0}
    /\ q_calling = [di \in DisplayIndexes |-> {}]
    /\ q_returned = [di \in DisplayIndexes |-> {}]

IdleBudget ==
    /\ q_rubric = [di \in DisplayIndexes |-> 0]
    /\ q_calling = [di \in DisplayIndexes |-> {}]
    /\ q_returned = [di \in DisplayIndexes |-> {}]

\* A thread of the item's criterion pool (or the item's thread, for the single
\* judge) takes the next call: _run_judge_call enters run_model_call
\* (judging.py:49-93)
JudgeCallStart(di) ==
    /\ jstate[di] = "running"
    /\ Cardinality(q_calling[di]) < worker_count(di)
    /\ \E idx \in CallsOf(di) \ (q_calling[di] \cup q_returned[di]) :
        /\ \A other \in CallsOf(di) \ (q_calling[di] \cup q_returned[di]) : idx <= other
        /\ q_calling' = [q_calling EXCEPT ![di] = @ \cup {idx}]
    /\ UNCHANGED <<q_rubric, q_returned>>
    /\ UNCHANGED outsideBudget

\* run_model_call returns or raises: the call is over (judging.py:94-101)
JudgeCallReturns(di) ==
    /\ \E idx \in q_calling[di] :
        /\ q_calling' = [q_calling EXCEPT ![di] = @ \ {idx}]
        /\ q_returned' = [q_returned EXCEPT ![di] = @ \cup {idx}]
    /\ UNCHANGED q_rubric
    /\ UNCHANGED outsideBudget

\* judging.py:286-289, 513-570: every call of the item has returned, the
\* criterion pool is closed and _evaluate_judge_item returns
EvaluateJudgeItemReturns(di) ==
    /\ jstate[di] = "running"
    /\ q_returned[di] = CallsOf(di)
    /\ jstate' = [jstate EXCEPT ![di] = "done"]
    /\ UNCHANGED <<response_source, responses_by_key, response_workers, judge_workers, pc,
                   next_task_idx, inflight, done, fstate, blocked_candidates,
                   generation_results, failed_items, interrupted, okAtInterrupt,
                   responses_rows, ordered_results, judgments_rows, judge_interrupted,
                   summary, judge_item_results, judge_failed_items>>
    /\ UNCHANGED outsideRun

NextBudget ==
    \/ JudgePhaseSubmit
    \/ \E di \in DisplayIndexes : JudgeWorkerStart(di)
    \/ \E di \in DisplayIndexes : JudgeCallStart(di)
    \/ \E di \in DisplayIndexes : JudgeCallReturns(di)
    \/ \E di \in DisplayIndexes : EvaluateJudgeItemReturns(di)

\* ======================================================================
\* One application of apply_weighted_rubric_score (specification SpecAggregate)
\* ======================================================================

\* The keys a judge can return: the overall score, the rubric's criteria by
\* their ids, and a key that is an alias of no criterion
UNKNOWN_KEY == <<"unrelated", 0>>

ReturnedKeys == {OVERALL, UNKNOWN_KEY} \cup {criterion_id(idx) : idx \in 1..MaxCriteria}

\* JudgeResult.criteria as parse_judge_output can fill it: any set of keys,
\* each with a score in [0, 1]
ReturnedCriteria ==
    UNION {[keys -> {Frac(0, 1), Frac(1, 1)}] : keys \in SUBSET ReturnedKeys}

ParsedResults ==
    {JudgeResult(score, passed, criteria, FALSE) :
        score \in {Frac(0, 1), Frac(1, 2), Frac(1, 1)},
        passed \in BOOLEAN,
        criteria \in ReturnedCriteria}

AggregatedExamples ==
    {Example("reference", <<>>, FALSE)}
        \cup {Example("rubric", r, FALSE) :
                r \in {<<>>} \cup UNION {[1..n -> {1, 2, 0 - 5}] : n \in 1..MaxCriteria}}

InitAggregate ==
    /\ a_parsed \in ParsedResults
    /\ a_example \in AggregatedExamples
    /\ a_threshold = Frac(7, 10)
    /\ a_out = a_parsed
    /\ a_pc = "call"

IdleAggregate ==
    /\ a_parsed = JudgeResult(Frac(0, 1), FALSE, NoCriteria, FALSE)
    /\ a_example = Example("reference", <<>>, FALSE)
    /\ a_threshold = Frac(7, 10)
    /\ a_out = JudgeResult(Frac(0, 1), FALSE, NoCriteria, FALSE)
    /\ a_pc = "idle"

\* judge.py:250-306
ApplyWeightedRubricScore ==
    /\ a_pc = "call"
    /\ a_out' = apply_weighted_rubric_score(a_parsed, a_example, a_threshold)
    /\ a_pc' = "returned"
    /\ UNCHANGED <<a_parsed, a_example, a_threshold>>
    /\ UNCHANGED outsideAggregate

NextAggregate == ApplyWeightedRubricScore

\* ------------------------------------------------------- specifications
\* The run orchestration, with the executor idle
Init == InitRun /\ IdleCall /\ IdleLimiter /\ IdleBackoff /\ IdleItem /\ IdleMerge /\ IdleFiles /\ IdleBudget /\ IdleAggregate /\ IdlePair /\ IdleDirs

Spec == Init /\ [][Next]_vars

\* The steps of the thread that executes run(): it is never blocked except in
\* concurrent.futures.wait and as_completed, which return as soon as a future
\* is finished.  A KeyboardInterrupt is delivered by the environment and is
\* not a step the thread is bound to take.
MainThread ==
    \/ ResolveResponseSource
    \/ SubmitGenerationTask
    \/ SubmitUntilFullReturns
    \/ WaitFirstCompleted
    \/ HandleGenerationFuture
    \/ GenerationPhaseReturns
    \/ JudgePhaseSubmit
    \/ JudgeCollect
    \/ JudgePhaseReturns
    \/ WriteRunOutputs

\* The main thread keeps running; a free pool thread takes the oldest queued
\* task; every provider call terminates, so a started task returns or raises.
RunFairness ==
    /\ WF_vars(MainThread)
    /\ \A di \in DisplayIndexes :
        /\ WF_vars(GenerationWorkerStart(di))
        /\ WF_vars(GenerationWorkerFinish(di))
        /\ WF_vars(JudgeWorkerStart(di))
        /\ WF_vars(JudgeWorkerFinish(di))

\* The run under the scheduling above (orchestrator.py:90-187)
SpecLive == Init /\ [][Next]_vars /\ RunFairness

\* The executor, with the run orchestration idle
InitExecutor == IdleRun /\ InitCall /\ IdleLimiter /\ IdleBackoff /\ IdleItem /\ IdleMerge /\ IdleFiles /\ IdleBudget /\ IdleAggregate /\ IdlePair /\ IdleDirs

SpecCall == InitExecutor /\ [][NextCall]_vars

\* The rate limiter, with the run orchestration and the executor idle
InitRateLimiter == IdleRun /\ IdleCall /\ InitLimiter /\ IdleBackoff /\ IdleItem /\ IdleMerge /\ IdleFiles /\ IdleBudget /\ IdleAggregate /\ IdlePair /\ IdleDirs

SpecLimiter == InitRateLimiter /\ [][NextLimiter]_vars

\* The backoff computation, with everything else idle
InitRetryBackoff == IdleRun /\ IdleCall /\ IdleLimiter /\ InitBackoff /\ IdleItem /\ IdleMerge /\ IdleFiles /\ IdleBudget /\ IdleAggregate /\ IdlePair /\ IdleDirs

SpecBackoff == InitRetryBackoff /\ [][NextBackoff]_vars

\* The judging of one item, with everything else idle
InitJudgeItem == IdleRun /\ IdleCall /\ IdleLimiter /\ IdleBackoff /\ InitItem /\ IdleMerge /\ IdleFiles /\ IdleBudget /\ IdleAggregate /\ IdlePair /\ IdleDirs

SpecJudgeItem == InitJudgeItem /\ [][NextItem]_vars

\* The reconciliation of two runs, with everything else idle
InitReconcile ==
    IdleRun /\ IdleCall /\ IdleLimiter /\ IdleBackoff /\ IdleItem /\ InitMerge /\ IdleFiles /\ IdleBudget /\ IdleAggregate /\ IdlePair /\ IdleDirs

SpecReconcile == InitReconcile /\ [][NextMerge]_vars

\* The files of one cache key, with everything else idle
InitCacheFiles ==
    IdleRun /\ IdleCall /\ IdleLimiter /\ IdleBackoff /\ IdleItem /\ IdleMerge /\ InitFiles /\ IdleBudget /\ IdleAggregate /\ IdlePair /\ IdleDirs

SpecCacheFiles == InitCacheFiles /\ [][NextFiles]_vars

\* The same files, starting from a directory whose entry does not decode
InitCacheDamaged ==
    IdleRun /\ IdleCall /\ IdleLimiter /\ IdleBackoff /\ IdleItem /\ IdleMerge /\ InitDamagedFiles /\ IdleBudget /\ IdleAggregate /\ IdlePair /\ IdleDirs

SpecCacheDamaged == InitCacheDamaged /\ [][NextFiles]_vars

\* Two calls with one cache key on an empty cache directory, everything else idle
InitSameKey ==
    IdleRun /\ IdleCall /\ IdleLimiter /\ IdleBackoff /\ IdleItem /\ IdleMerge /\ IdleFiles /\ IdleBudget /\ IdleAggregate /\ InitPair /\ IdleDirs

SpecSameKey == InitSameKey /\ [][NextSameKey]_vars

\* One call of merge_run_outputs on a directory of runs, everything else idle
InitMergeDirs ==
    IdleRun /\ IdleCall /\ IdleLimiter /\ IdleBackoff /\ IdleItem /\ IdleMerge /\ IdleFiles /\ IdleBudget /\ IdleAggregate /\ IdlePair /\ InitDirs

SpecMergeDirs == InitMergeDirs /\ [][NextMergeDirs]_vars

\* The judge calls of a judging phase, with everything else idle
InitJudgeBudget ==
    InitBudget /\ IdleCall /\ IdleLimiter /\ IdleBackoff /\ IdleItem /\ IdleMerge /\ IdleFiles /\ IdleAggregate /\ IdlePair /\ IdleDirs

SpecJudgeBudget == InitJudgeBudget /\ [][NextBudget]_vars

\* One application of apply_weighted_rubric_score, with everything else idle
InitWeightedScore ==
    IdleRun /\ IdleCall /\ IdleLimiter /\ IdleBackoff /\ IdleItem /\ IdleMerge /\ IdleFiles /\ IdleBudget /\ InitAggregate /\ IdlePair /\ IdleDirs

SpecAggregate == InitWeightedScore /\ [][NextAggregate]_vars

\* ======================================================================
\* Properties of the run orchestration (specification Spec)
\* ======================================================================

GenerationPhaseEnded == pc \notin {"resolve", "config_error", "submit", "wait", "handle"}
GenerationPhaseReturned == pc \notin {"resolve", "config_error", "submit", "wait", "handle", "generation_return"}
JudgingStarted ==
    \/ pc \in {"judge_submit", "judge_collect"}
    \/ \E di \in DisplayIndexes : jstate[di] # "none"

RowCount(di) ==
    Cardinality({i \in 1..Len(generation_results) : generation_results[i] = di})
FailureCount(di) ==
    Cardinality({i \in 1..Len(failed_items) :
                    /\ failed_items[i].display_index = di
                    /\ failed_items[i].stage = "response"})

\* C1: when a generation phase ends without interruption, every planned
\* (candidate, example) task has exactly one recorded outcome - one response
\* row or one failure item of stage "response", never both, never neither -
\* so rows + failure items = candidates x examples.
C1_ExactlyOneOutcome ==
    (GenerationPhaseEnded /\ ~interrupted) =>
        /\ \A di \in DisplayIndexes : RowCount(di) + FailureCount(di) = 1
        /\ Len(generation_results) + Len(failed_items) = NumCandidates * NumExamples
        /\ GenerationPhaseReturned => Len(responses_rows) = Len(generation_results)

C1_Witness ==
    /\ GenerationPhaseReturned
    /\ ~interrupted
    /\ Len(responses_rows) > 0
    /\ \E i \in 1..Len(failed_items) : failed_items[i].error = {SKIPPED_REASON}
    /\ \E i \in 1..Len(failed_items) : failed_items[i].error # {SKIPPED_REASON}

\* C2: generation is a hard barrier before judging: whenever the judging phase
\* has been entered (a judging item is queued, running or done) no generation
\* task is still queued or running, for every worker count.
C2_GenerationBarrier ==
    JudgingStarted =>
        \A di \in DisplayIndexes : fstate[di].kind \notin {"pending", "running"}

C2_Witness ==
    /\ response_workers > 1
    /\ \E di \in DisplayIndexes : jstate[di] = "running"
    /\ \E di \in DisplayIndexes : jstate[di] = "done"

\* C3 (as claimed): after a KeyboardInterrupt in the generation phase the
\* judging phase never runs, and the written artifacts carry
\* run_status "interrupted", interrupted_stage "generation" and one response
\* row per generation task that had completed successfully when the
\* interrupt surfaced.
C3_InterruptedArtifacts ==
    (summary.written /\ interrupted) =>
        /\ summary.run_status = "interrupted"
        /\ summary.interrupted_stage = "generation"
        /\ summary.judgments = <<>>
        /\ \A di \in DisplayIndexes : jstate[di] = "none"
        /\ SeqToSet(summary.responses) = okAtInterrupt
        /\ Len(summary.responses) = Cardinality(okAtInterrupt)

\* The part of C3 that the code keeps: the status fields, no judging, and
\* only rows of tasks that had completed.
InterruptSkipsJudging ==
    (summary.written /\ interrupted) =>
        /\ summary.run_status = "interrupted"
        /\ summary.interrupted_stage = "generation"
        /\ summary.judgments = <<>>
        /\ \A di \in DisplayIndexes : jstate[di] = "none"
        /\ SeqToSet(summary.responses) \subseteq okAtInterrupt

\* C4 (as claimed): when an interrupted generation phase returns, every task
\* whose worker has returned a response by then is among the returned
\* response rows, and no started task is still running.
C4_NoCompletedResultDiscarded ==
    [][(pc = "generation_return" /\ pc' # "generation_return" /\ interrupted) =>
          /\ \A di \in DisplayIndexes :
                fstate[di].kind = "ok" => di \in SeqToSet(responses_rows')
          /\ \A di \in DisplayIndexes : fstate[di].kind # "running"]_vars

\* A failure of a task of the candidate with a candidate-fatal signature
\* has been handled (its failure item is recorded)
FatalSignature(message) ==
    \/ "on-demand throughput isn<U+2019>t supported" \in message
    \/ "on-demand throughput isn't supported" \in message
    \/ {"inference profile", "bedrockexception"} \subseteq message

HandledFatalFailure(candidate) ==
    \E i \in 1..Len(failed_items) :
        /\ failed_items[i].candidate_name = candidate
        /\ FatalSignature(failed_items[i].error)

\* C13: once a task of candidate X has failed with the candidate-fatal
\* signature and the failure has been handled, no task of X that the
\* submission loop has not reached yet is submitted to the pool or runs; when
\* the loop reaches it, it gets exactly one synthetic failure item, and an
\* uninterrupted phase reaches every task.
C13_FatalCandidateSkipped ==
    [][\A di \in DisplayIndexes :
          (HandledFatalFailure(CandidateOf(di)) /\ di > next_task_idx) =>
              /\ fstate'[di].kind = "none"
              /\ di <= next_task_idx' =>
                    Cardinality({i \in 1..Len(failed_items') :
                                    failed_items'[i].display_index = di}) = 1
              /\ \A i \in 1..Len(failed_items') :
                    failed_items'[i].display_index = di =>
                        failed_items'[i].error = {SKIPPED_REASON}
              /\ \A i \in 1..Len(generation_results') : generation_results'[i] # di
              /\ (pc' \notin {"resolve", "config_error", "submit", "wait", "handle"} /\ ~interrupted') =>
                    di <= next_task_idx'
      ]_vars

\* A task was skipped after the fatal failure of an earlier task of its
\* candidate, in a phase that ended without interruption
C13_Witness ==
    /\ GenerationPhaseEnded
    /\ ~interrupted
    /\ \E di \in DisplayIndexes :
          /\ fstate[di].kind = "none"
          /\ HandledFatalFailure(CandidateOf(di))
          /\ \E i \in 1..Len(failed_items) :
                /\ failed_items[i].display_index = di
                /\ failed_items[i].error = {SKIPPED_REASON}

SkippedItems(di) ==
    {i \in 1..Len(failed_items) :
        /\ failed_items[i].display_index = di
        /\ failed_items[i].error = {SKIPPED_REASON}}

\* C14: candidate-fatal short-circuiting affects that candidate only.  A
\* task is skipped only if its own candidate is blocked; a candidate is
\* blocked only after one of its own tasks failed with the candidate-fatal
\* signature; every task of any other candidate, and every task of the
\* blocked candidate that was already submitted, still runs and gets its own
\* response row or failure item.
C14_ShortCircuitsThatCandidateOnly ==
    /\ \A di \in DisplayIndexes :
          SkippedItems(di) # {} => CandidateOf(di) \in blocked_candidates
    /\ \A candidate \in blocked_candidates : HandledFatalFailure(candidate)
    /\ (GenerationPhaseEnded /\ ~interrupted) =>
          \A di \in DisplayIndexes :
              (~HandledFatalFailure(CandidateOf(di)) \/ fstate[di].kind # "none") =>
                  /\ fstate[di].kind \in {"ok", "exception"}
                  /\ SkippedItems(di) = {}
                  /\ RowCount(di) + FailureCount(di) = 1

\* One candidate is blocked, a task of it that was already submitted has its
\* response row, and every task of another candidate has its response row
C14_Witness ==
    /\ GenerationPhaseEnded
    /\ ~interrupted
    /\ \E blocked \in blocked_candidates, other \in Candidates \ blocked_candidates :
          /\ \E di \in DisplayIndexes : CandidateOf(di) = blocked /\ RowCount(di) = 1
          /\ \A di \in DisplayIndexes : CandidateOf(di) = other => RowCount(di) = 1

Ascending(rows) == \A i, j \in 1..Len(rows) : i < j => rows[i] < rows[j]

\* C15: output ordering is deterministic and candidate-major.  Tasks get
\* display_index 1..C*E with all examples of a candidate before those of the
\* next one, and the response rows and judgment rows handed to the writer are
\* in ascending display_index order for every completion order of the workers.
C15_DeterministicOrder ==
    /\ Len(generation_tasks) = NumCandidates * NumExamples
    /\ \A i \in 1..Len(generation_tasks) : generation_tasks[i].display_index = i
    /\ \A i, j \in 1..Len(generation_tasks) :
          i < j =>
              \/ generation_tasks[i].candidate < generation_tasks[j].candidate
              \/ /\ generation_tasks[i].candidate = generation_tasks[j].candidate
                 /\ generation_tasks[i].example < generation_tasks[j].example
    /\ GenerationPhaseReturned => Ascending(responses_rows)
    /\ Ascending(judgments_rows)
    /\ summary.written => (Ascending(summary.responses) /\ Ascending(summary.judgments))

\* Everything was generated and judged by concurrent workers and written
C15_Witness ==
    /\ summary.written
    /\ response_workers > 1
    /\ judge_workers > 1
    /\ Len(summary.responses) = NumCandidates * NumExamples
    /\ Len(summary.judgments) = NumCandidates * NumExamples

\* run_judge_phase ran and returned to the orchestrator
JudgingPhaseReturned == pc \in {"write", "done"} /\ ~interrupted

ResponseCount(di) ==
    Cardinality({i \in 1..Len(responses_rows) : responses_rows[i] = di})

JudgmentCount(di) ==
    Cardinality({i \in 1..Len(judgments_rows) : judgments_rows[i] = di})

JudgeFailureCount(di) ==
    Cardinality({i \in 1..Len(judge_failed_items) :
                    judge_failed_items[i].display_index = di})

\* C17: a judging phase that is not interrupted emits exactly one judgment
\* row for each successfully generated response, and no judgment row or judge
\* call exists for a task whose generation failed or was skipped; hence the
\* number of judgment rows equals the number of response rows.
C17_OneJudgmentPerResponse ==
    /\ (JudgingPhaseReturned /\ ~judge_interrupted) =>
          /\ \A di \in DisplayIndexes :
                /\ ResponseCount(di) <= 1
                /\ JudgmentCount(di) = ResponseCount(di)
          /\ Len(judgments_rows) = Len(responses_rows)
    /\ \A di \in DisplayIndexes :
          FailureCount(di) > 0 =>
              /\ jstate[di] = "none"
              /\ judge_item_results[di] = NoItemResult
              /\ JudgmentCount(di) = 0

\* An uninterrupted judging phase over a run in which one generation failed,
\* the judging of one response failed and the judging of another succeeded
C17_Witness ==
    /\ JudgingPhaseReturned
    /\ ~judge_interrupted
    /\ \E di \in DisplayIndexes : FailureCount(di) > 0
    /\ \E di \in DisplayIndexes : JudgmentCount(di) = 1 /\ JudgeFailureCount(di) > 0
    /\ \E di \in DisplayIndexes : JudgmentCount(di) = 1 /\ JudgeFailureCount(di) = 0

\* The items whose dispatch raised: their row is the one built by the except
\* clause of _evaluate_judge_item
DispatchRaised(di) == judge_item_results[di].judgment_row.judge_name = "judge_phase_error"

JudgedNormally(di) ==
    /\ judge_item_results[di].judgment_row.judge_name = "primary_judge"
    /\ judge_item_results[di] \in evaluate_judge_item(di)

\* C18: an exception raised inside the per-item judging dispatch never aborts
\* the run: the item still gets exactly one judgment row, with parse_error =
\* true, score 0.0 and pass = false, plus exactly one failure item carrying the
\* error; all other items are judged normally, and the run finishes with
\* run_status "completed".
C18_DispatchExceptionContained ==
    \A di \in DisplayIndexes :
        DispatchRaised(di) =>
            /\ judge_item_results[di].judgment_row.parse_error
            /\ IsZero(judge_item_results[di].judgment_row.score)
            /\ ~judge_item_results[di].judgment_row.pass
            /\ judge_item_results[di].failed_items =
                   <<build_judge_failure_item(di, HANDLER_ERROR, NoCriterion)>>
            /\ (JudgingPhaseReturned /\ ~judge_interrupted) =>
                  /\ JudgmentCount(di) = 1
                  /\ JudgeFailureCount(di) = 1
                  /\ \A d \in SeqToSet(responses_rows) \ {di} :
                        /\ JudgmentCount(d) = 1
                        /\ DispatchRaised(d) \/ JudgedNormally(d)
            /\ (summary.written /\ ~judge_interrupted) =>
                  /\ summary.run_status = "completed"
                  /\ Cardinality({i \in 1..Len(summary.judgments) :
                                     summary.judgments[i] = di}) = 1

\* The run is written: the dispatch of one item raised, another item was
\* judged by the primary judge
C18_Witness ==
    /\ summary.written
    /\ ~judge_interrupted
    /\ summary.run_status = "completed"
    /\ \E di, d \in SeqToSet(summary.judgments) :
            /\ DispatchRaised(di)
            /\ JudgedNormally(d)
            /\ judge_item_results[d].failed_items = <<>>

\* C20: every failure item produced during the judging phase appears in
\* the failed_items of summary.json together with all generation failure
\* items, and num_failures is the combined count of both phases' items.
C20_JudgingFailuresInSummary ==
    summary.written =>
        /\ \A i \in 1..Len(failed_items) :
              \E k \in 1..Len(summary.failed_items) : summary.failed_items[k] = failed_items[i]
        /\ \A i \in 1..Len(judge_failed_items) :
              \E k \in 1..Len(summary.failed_items) :
                  /\ summary.failed_items[k].stage = "judge"
                  /\ summary.failed_items[k].display_index = judge_failed_items[i].display_index
                  /\ summary.failed_items[k].error = judge_failed_items[i].error
        /\ summary.num_failures = Len(failed_items) + Len(judge_failed_items)

\* What the orchestrator does write: the generation failure items only
SummaryHoldsGenerationFailuresOnly ==
    summary.written =>
        /\ summary.failed_items = failed_items
        /\ summary.num_failures = Len(failed_items)

MissingCoverage ==
    /\ response_source \in PreloadedSources
    /\ \E di \in DisplayIndexes : di \notin responses_by_key

NothingExecuted ==
    /\ next_task_idx = 0
    /\ inflight = {}
    /\ done = {}
    /\ \A di \in DisplayIndexes : fstate[di].kind = "none" /\ jstate[di] = "none"
    /\ generation_results = <<>>
    /\ failed_items = <<>>
    /\ responses_rows = <<>>
    /\ judgments_rows = <<>>
    /\ ~summary.written

\* C29: with a prefilled or part_of_conversation response source whose
\* mapping lacks an entry for a planned task, the generation phase raises a
\* configuration error before any task is submitted and before any call, wait
\* or row is produced: the run is never partially executed.  A source that
\* covers every task, and the sampled source, raise no such error.
C29_MissingCoverageFailsFast ==
    /\ MissingCoverage => (pc \in {"resolve", "config_error"} /\ NothingExecuted)
    /\ pc = "config_error" => MissingCoverage
    /\ pc \in {"resolve", "config_error"} => NothingExecuted

\* A part_of_conversation source that covers all tasks but one: the phase raised
C29_Witness ==
    /\ pc = "config_error"
    /\ response_source = "part_of_conversation"
    /\ Cardinality(responses_by_key) = total_items - 1
    /\ NothingExecuted

ValidatedRun == pc = "submit" /\ next_task_idx = 0

SummaryWritten ==
    /\ summary.written
    /\ summary.run_status \in {"completed", "interrupted"}

\* C30: every run that passes configuration validation, and whose provider
\* calls all terminate, eventually writes summary.json with run_status
\* completed or interrupted, whatever generation tasks fail, candidates are
\* skipped as fatal, judge calls fail, judging raises, or an interrupt arrives
\* during generation.
C30_ValidatedRunWritesSummary == ValidatedRun ~> SummaryWritten

\* A completed run that had a failed generation task, a candidate-fatal skip
\* and a failed judging item, and wrote its summary
C30_Witness ==
    /\ SummaryWritten
    /\ summary.run_status = "completed"
    /\ blocked_candidates # {}
    /\ \E i \in 1..Len(failed_items) : failed_items[i].error = {SKIPPED_REASON}
    /\ judge_failed_items # <<>>

\* the tasks handed to the pool so far (a skipped task is never handed over)
Submitted == {di \in DisplayIndexes : fstate[di].kind # "none"}

FanOutBound == Min(response_workers, total_items)

\* a step that hands one more task to the pool
SubmitsTask(di) == di \notin Submitted /\ di \in Submitted'

\* C31: the generation tasks submitted and not yet handled never number more
\* than min(response_workers, task_count); a further task is submitted only
\* when fewer than that many are unhandled (a slot is free), one at a time,
\* and with a display_index above that of every task submitted before.
C31_BoundedLazyFanOut ==
    /\ [](Cardinality(inflight) <= FanOutBound /\ inflight \subseteq Submitted)
    /\ [][\A di \in DisplayIndexes : SubmitsTask(di) =>
            /\ Cardinality(inflight) < FanOutBound
            /\ inflight' = inflight \cup {di}
            /\ Submitted' = Submitted \cup {di}
            /\ \A d \in Submitted : d < di]_vars

\* The pool is full with two unhandled tasks, one task was already handled and
\* the last task still waits for a slot
C31_Witness ==
    /\ pc = "wait"
    /\ Cardinality(inflight) = FanOutBound
    /\ FanOutBound >= 2
    /\ generation_results # <<>>
    /\ next_task_idx < total_items
    /\ next_task_idx = Cardinality(Submitted)

\* a step in which the submission loop decides about task di
DecidesTask(di) == next_task_idx < di /\ di <= next_task_idx'

\* a step of a pool thread: a worker starts or finishes a task
WorkerStep ==
    \E di \in DisplayIndexes :
        /\ fstate[di].kind \in {"pending", "running"}
        /\ fstate'[di].kind \notin {fstate[di].kind, "cancelled"}

\* C33: the blocked-candidates set is read and written without a race.  No
\* insert is lost (the set only grows, and holds every candidate whose fatal
\* failure has been handled); no step of a pool thread changes it and it
\* changes only while the coordinator handles a future; and every submission
\* decision taken for a candidate after its fatal failure was handled sees the
\* candidate as blocked: the task is skipped, never submitted.
C33_BlockedCandidatesRaceFree ==
    /\ [](\A c \in Candidates : HandledFatalFailure(c) => c \in blocked_candidates)
    /\ [][/\ blocked_candidates \subseteq blocked_candidates'
          /\ blocked_candidates' # blocked_candidates => (pc = "handle" /\ ~WorkerStep)
          /\ \A di \in DisplayIndexes :
                (DecidesTask(di) /\ HandledFatalFailure(CandidateOf(di))) =>
                    /\ CandidateOf(di) \in blocked_candidates
                    /\ fstate'[di].kind = "none"
                    /\ di \notin inflight'
                    /\ Len(failed_items') = Len(failed_items) + 1
                    /\ failed_items'[Len(failed_items')].display_index = di
                    /\ failed_items'[Len(failed_items')].error = {SKIPPED_REASON}
      ]_vars

\* Two workers: both candidates were blocked one after the other, and a task
\* was skipped while another task was still running in the pool
C33_Witness ==
    /\ response_workers >= 2
    /\ blocked_candidates = Candidates
    /\ Cardinality(Candidates) >= 2
    /\ \E di \in DisplayIndexes : fstate[di].kind = "running"
    /\ \E di \in DisplayIndexes : SkippedItems(di) # {}

\* The judging phase was interrupted and the outputs of the run are written
JudgingInterruptedRun == judge_interrupted /\ summary.written

\* judging.py:843-849: the interrupted_stage of the JudgingPhaseResult
judging_interrupted_stage == IF judge_interrupted THEN "judging" ELSE "none"

\* what the phase hands back and what is written of the earlier phase: the
\* judgment rows of the collected items in display_index order, and every
\* response row
JudgingInterruptKeepsRows ==
    JudgingInterruptedRun =>
        /\ judging_interrupted_stage = "judging"
        /\ judgments_rows = materialize_judgments(ordered_results)
        /\ Ascending(judgments_rows)
        /\ summary.judgments = judgments_rows
        /\ summary.responses = responses_rows
        /\ SeqToSet(generation_results) \subseteq SeqToSet(summary.responses)

\* every item whose judging is over when the interrupt arrives gets its row
InterruptKeepsFinishedItems ==
    [][JudgePhaseInterrupted =>
          \A di \in DisplayIndexes : jstate[di] = "done" => di \in SeqToSet(judgments_rows')]_vars

\* C39: if the judging phase is interrupted (KeyboardInterrupt/SystemExit),
\* the phase returns interrupted = true with interrupted_stage "judging" and,
\* in display_index order, the judgment rows of every item whose judging had
\* completed before the interrupt; the written summary then reports
\* run_status "interrupted" with interrupted_stage "judging", and all
\* response rows are still written.
C39_JudgingInterruptReported ==
    JudgingInterruptedRun =>
        /\ JudgingInterruptKeepsRows
        /\ summary.run_status = "interrupted"
        /\ summary.interrupted_stage = judging_interrupted_stage

\* ======================================================================
\* Properties of the model-call executor (specification SpecCall)
\* ======================================================================
NonEmptyText(text) == ~text.is_none /\ strip(text.chars) # <<>>

CallCompleted == cpc = "idle" /\ last_call.completed

\* The last two completed calls were made with the same request and stage,
\* on a cache that held no usable entry for their key, and every answer of
\* the provider was a non-empty text.
TwoSuccessiveCalls ==
    /\ cpc = "idle"
    /\ cache_enabled
    /\ prev_call.completed
    /\ last_call.completed
    /\ last_call.key = prev_call.key
    /\ prev_call.file_before.state # "json"
    /\ prev_call.invocations >= 1
    /\ prev_call.nonempty_only
    /\ last_call.nonempty_only

\* C5: idempotent caching.  With the cache enabled and a provider that
\* answers with non-empty text, two successive calls with the unchanged
\* request return cache_hit = false and then cache_hit = true, with the same
\* key and equal payloads, and the provider is invoked once in total.
C5_IdempotentCaching ==
    TwoSuccessiveCalls =>
        /\ prev_call.outcome = "returned"
        /\ ~prev_call.cache_hit
        /\ last_call.outcome = "returned"
        /\ last_call.cache_hit
        /\ last_call.payload = prev_call.payload
        /\ prev_call.invocations + last_call.invocations = 1

C5_Witness ==
    /\ TwoSuccessiveCalls
    /\ last_call.cache_hit
    /\ NonEmptyText(last_call.payload.text)
    /\ executor = "run_model_call"

\* The completed call was a response-stage call that found an entry with
\* empty (or missing, or whitespace) text under its key.
CachedEmptyResponse ==
    /\ CallCompleted
    /\ cache_enabled
    /\ last_call.stage = "response"
    /\ last_call.file_before.state = "json"
    /\ is_empty_response_payload(json_load(last_call.file_before.doc))

FirstAnswerNonEmpty ==
    /\ Invocations(events) # {}
    /\ \A i \in Invocations(events) :
          (\A j \in Invocations(events) : i <= j) => NonEmptyText(events[i].text)

\* C6: empty-response quarantine.  A response-stage entry with empty text is
\* never returned as a hit: the executor evicts it, makes one live provider
\* call (when that call answers with non-empty text), returns
\* cache_hit = false, and the entry of the key then holds the fresh
\* non-empty payload.
C6_EmptyResponseQuarantine ==
    CachedEmptyResponse =>
        /\ ~last_call.cache_hit
        /\ FirstAnswerNonEmpty =>
              /\ last_call.outcome = "returned"
              /\ last_call.invocations = 1
              /\ NonEmptyText(last_call.payload.text)
              /\ files[last_call.key] = JsonFile(last_call.payload)

\* The same property restricted to run_model_call of bootstrap.py
C6_QuarantineOfRunModelCall == executor = "run_model_call" => C6_EmptyResponseQuarantine

C6_QuarantineReached ==
    /\ executor = "run_model_call"
    /\ CachedEmptyResponse
    /\ FirstAnswerNonEmpty
    /\ last_call.lookup = "evicted"

\* Every provider answer of the completed call had empty text
AllAnswersEmpty ==
    /\ Invocations(events) # {}
    /\ \A i \in Invocations(events) :
          events[i].exc \notin ProviderErrors /\ ~NonEmptyText(events[i].text)

\* C7: the executor never writes a response-stage cache entry whose text is
\* empty; a live response with empty text is retried up to max_attempts, and
\* when every attempt answers with empty text the call fails and the cache
\* holds no entry for the key.
C7_NeverCachesEmptyResponse ==
    /\ \A w \in writes :
          StageOfKey(w.key) = "response" => ~is_empty_response_payload(w.payload)
    /\ (CallCompleted /\ cache_enabled /\ last_call.stage = "response"
            /\ ~last_call.cache_hit /\ AllAnswersEmpty) =>
          /\ last_call.outcome = "raised"
          /\ last_call.invocations = retry_cfg.max_attempts
          /\ files[last_call.key].state = "absent"

\* The same property restricted to run_model_call of bootstrap.py
C7_NeverCachesOfRunModelCall == executor = "run_model_call" => C7_NeverCachesEmptyResponse

C7_EmptyRetriedReached ==
    /\ executor = "run_model_call"
    /\ CallCompleted
    /\ last_call.stage = "response"
    /\ AllAnswersEmpty
    /\ last_call.invocations = 2

\* The k-th invocation of the operation in a history
InvocationNumber(evs, i) == Cardinality({j \in Invocations(evs) : j <= i})

\* C9: with_retries fires before_attempt exactly once immediately before
\* every invocation of the operation, with the attempt numbers 1, 2, ..., k;
\* the operation is invoked at most max_attempts times and never again after
\* it has returned.
C9_BeforeAttemptEveryInvocation ==
    cur.hook_given =>
        /\ \A i \in Invocations(events) :
              /\ i > 1
              /\ events[i - 1].ev = "before_attempt"
              /\ events[i - 1].attempt = InvocationNumber(events, i)
        /\ \A i \in 1..Len(events) :
              events[i].ev = "before_attempt" =>
                  IF i < Len(events) THEN events[i + 1].ev = "invoke" ELSE cpc = "invoke"
        /\ Cardinality(Invocations(events)) <= retry_cfg.max_attempts
        /\ \A i \in Invocations(events) :
              events[i].result = "text" => i = Len(events)

C9_Witness ==
    /\ cur.hook_given
    /\ CallCompleted
    /\ last_call.outcome = "returned"
    /\ Cardinality(Invocations(events)) = 2
    /\ events[Len(events)].result = "text"

\* C10: after an error classified as non-transient, or a failure on attempt
\* number max_attempts, with_retries makes no further attempt and no backoff
\* sleep, and the exception raised by the operation reaches the caller
\* unchanged.
C10_ReraisesImmediately ==
    \A i \in Invocations(events) :
        (/\ events[i].result = "raised"
         /\ \/ ~is_transient_error(events[i].exc)
            \/ events[i].attempt >= retry_cfg.max_attempts) =>
            /\ i = Len(events)
            /\ cpc = "idle"
            /\ last_call.outcome = "raised"
            /\ last_call.exc = events[i].exc

C10_Witness ==
    /\ CallCompleted
    /\ retry_cfg.max_attempts = 2
    /\ Len(events) >= 1
    /\ events[Len(events)].ev = "invoke"
    /\ events[Len(events)].attempt = 1
    /\ events[Len(events)].exc = ValidationError
    /\ last_call.exc = ValidationError

C10_WitnessExhausted ==
    /\ CallCompleted
    /\ retry_cfg.max_attempts = 2
    /\ Len(events) >= 1
    /\ events[Len(events)].attempt = 2
    /\ events[Len(events)].exc = OverloadedError
    /\ last_call.exc = OverloadedError

\* The executor returned a payload it found in the cache (bootstrap.py:78)
ServedFromCache == CallCompleted /\ last_call.outcome = "returned" /\ last_call.cache_hit

\* C37: a cache hit consumes nothing.  When the executor returns a cached
\* payload (cache_hit = true) the provider was not invoked, before_attempt
\* was never fired, so no rate limiter (the global one or the provider's) was
\* waited on, and the cache entry of the key is the one the call found.
C37_CacheHitConsumesNothing ==
    ServedFromCache =>
        /\ last_call.invocations = 0
        /\ \A i \in 1..Len(events) : events[i].ev # "before_attempt" /\ events[i].waits = <<>>
        /\ files[last_call.key] = last_call.file_before
        /\ last_call.file_before.state = "json"
        /\ last_call.payload = json_load(last_call.file_before.doc)

\* a generation task with a limiter of its provider is served from the cache
C37_Witness ==
    /\ ServedFromCache
    /\ cur.stage = "response"
    /\ cur.hook_given
    /\ cur.provider_limiter
    /\ NonEmptyText(last_call.payload.text)

\* the call that completed last went through with_retries
RetriedCall == CallCompleted /\ last_call.lookup # "hit"

OperationInvokedAndOutcomeIsItsOwn ==
    /\ last_call.invocations >= 1
    /\ \/ /\ last_call.outcome = "returned"
          /\ events[Len(events)].ev = "invoke"
          /\ events[Len(events)].result = "text"
       \/ /\ last_call.outcome = "raised"
          /\ \E i \in Invocations(events) :
                events[i].result = "raised" /\ events[i].exc = last_call.exc

\* C36: for every RetryConfig, max_attempts <= 0 included, with_retries
\* invokes the operation at least once and ends by returning the operation's
\* result or raising an exception the operation raised.
C36_InvokesAtLeastOnce == RetriedCall => OperationInvokedAndOutcomeIsItsOwn

\* the same for the configurations with max_attempts >= 1
RetriesConfiguredAtLeastOnce ==
    (RetriedCall /\ retry_cfg.max_attempts >= 1) => OperationInvokedAndOutcomeIsItsOwn

\* The call in progress or last completed is the live call of a generation task
GenerationTaskCall == cur.stage = "response" /\ cur.hook_given

\* C12: for a live generation task every provider attempt, the first and
\* every retry, is preceded by exactly one wait on the global response rate
\* limiter followed by exactly one wait on the provider's limiter when one is
\* configured; no attempt is made without these waits.
C12_WaitsBeforeEveryAttempt ==
    GenerationTaskCall =>
        /\ \A i \in Invocations(events) :
              /\ i > 1
              /\ events[i - 1].ev = "before_attempt"
              /\ events[i - 1].waits =
                    IF cur.provider_limiter
                    THEN <<"response_rate_limiter", "provider_limiter">>
                    ELSE <<"response_rate_limiter">>
        /\ \A i \in 1..Len(events) :
              events[i].ev = "before_attempt" =>
                  IF i < Len(events) THEN events[i + 1].ev = "invoke" ELSE cpc = "invoke"

\* A task with a provider limiter whose first attempt failed and was retried
C12_Witness ==
    /\ GenerationTaskCall
    /\ cur.provider_limiter
    /\ CallCompleted
    /\ Cardinality(Invocations(events)) = 2
    /\ events[Len(events)].ev = "invoke"

\* ======================================================================
\* Properties of the rate limiter (specification SpecLimiter)
\* ======================================================================
\* C8: rate-limiter spacing.  For any number of wait() calls on one limiter,
\* sequential or concurrent, in bursts or after idle gaps, every two
\* consecutive admission instants are at least 60/rpm seconds apart.
C8_RateLimiterSpacing ==
    \A i \in 1..(Len(admissions) - 1) :
        admissions[i + 1] - admissions[i] >= interval_s

\* A burst of two threads followed by a call after an idle gap
C8_Witness ==
    /\ Len(admissions) = 3
    /\ admissions[2] - admissions[1] = interval_s
    /\ admissions[3] - admissions[2] > interval_s
    /\ \E t \in Threads : wait_for[t] > 0
    /\ \A t \in Threads : lpc[t] = "idle"

\* ======================================================================
\* Properties of the backoff computation (specification SpecBackoff)
\* ======================================================================
\* The first usable hint an exception carries: the retry_after attribute,
\* then the Retry-After header, then the number in the message; usable means
\* a number that is not negative.
UsableHints(exc) ==
    LET candidates == <<exc.retry_after, exc.header_retry_after, exc.message_retry_after>>
    IN {i \in 1..3 : candidates[i].kind = "num" /\ candidates[i].num >= 0}

CarriedHint(exc) ==
    LET candidates == <<exc.retry_after, exc.header_retry_after, exc.message_retry_after>>
        first == CHOOSE i \in UsableHints(exc) : \A j \in UsableHints(exc) : i <= j
    IN candidates[first].num

\* C11: when a transient error carries a retry-after hint, the backoff sleep
\* is exactly min(max_delay, hint): the hint replaces the exponential
\* backoff, no jitter is added, and the sleep never exceeds max_delay.
C11_RetryAfterHint ==
    (b_pc = "slept" /\ UsableHints(b_exc) # {}) =>
        /\ b_delay = Min(b_retry.max_delay_s, CarriedHint(b_exc))
        /\ b_delay <= b_retry.max_delay_s

\* The header hint is used (the attribute is not a number), it is below
\* max_delay and differs from what exponential backoff would give
C11_Witness ==
    /\ b_pc = "slept"
    /\ b_exc.retry_after = Junk
    /\ b_exc.header_retry_after = Num(3)
    /\ b_delay = 3
    /\ b_retry.base_delay_s * Pow2(b_attempt - 1) # 3

\* A hint above max_delay is capped
C11_WitnessCapped ==
    /\ b_pc = "slept"
    /\ b_exc.retry_after = Num(99)
    /\ b_delay = b_retry.max_delay_s

\* ======================================================================
\* Properties of the judging of one item (specification SpecJudgeItem)
\* ======================================================================

ItemReturned == j_pc = "returned"

RaisedCriteria ==
    {j_results[i].criterion_index : i \in {k \in 1..Len(j_results) : j_results[k].error # NoError}}

\* C16: fail-closed.  Every judgment row a judging strategy returns
\* (deterministic MCQ, single judge, rubric multi-judge, the unexpected
\* exception path) that has parse_error = true has score 0.0 and pass = false,
\* whatever aggregate was computed before.
C16_FailClosed ==
    (ItemReturned /\ j_item.judgment_row.parse_error) =>
        /\ IsZero(j_item.judgment_row.score)
        /\ ~j_item.judgment_row.pass

\* A rubric row with a parse error although one of its criteria scored 1
C16_Witness ==
    /\ ItemReturned
    /\ j_item.judgment_row.judge_name = "rubric_multi_judge"
    /\ j_item.judgment_row.parse_error
    /\ \E i \in 1..Len(j_item.judgment_row.calls) :
            /\ ~IsZero(j_item.judgment_row.calls[i].score)
            /\ j_example.rubric[i] > 0

\* C19: in rubric multi-judge mode a per-criterion judge call that raises is
\* contained to that criterion: every other criterion is still judged, the
\* single judgment row of the item records one call detail per criterion and
\* has parse_error = true, and one failure item carrying the criterion_id is
\* recorded for each criterion whose call raised.
C19_CriterionFailureContained ==
    (/\ ItemReturned
     /\ j_item.judgment_row.judge_name = "rubric_multi_judge"
     /\ RaisedCriteria # {}) =>
        LET row == j_item.judgment_row
            n == Len(j_example.rubric)
        IN  /\ Len(row.calls) = n
            /\ \A i \in 1..n :
                  /\ row.calls[i].criterion_index = i
                  /\ row.calls[i].criterion_id = criterion_id(i)
                  /\ (i \in RaisedCriteria) <=> (row.calls[i].error # NoError)
            /\ row.parse_error
            /\ Len(j_item.failed_items) = Cardinality(RaisedCriteria)
            /\ \A idx \in RaisedCriteria :
                  Cardinality({k \in 1..Len(j_item.failed_items) :
                                  j_item.failed_items[k] =
                                      build_judge_failure_item(ITEM_DISPLAY_INDEX,
                                                               JUDGE_CALL_ERROR,
                                                               criterion_id(idx))}) = 1

\* Two criteria: the call of one raised, the other one was judged and met
C19_Witness ==
    /\ ItemReturned
    /\ j_item.judgment_row.judge_name = "rubric_multi_judge"
    /\ Len(j_example.rubric) > 1
    /\ Cardinality(RaisedCriteria) = 1
    /\ \E i \in 1..Len(j_item.judgment_row.calls) :
            /\ j_item.judgment_row.calls[i].error = NoError
            /\ ~j_item.judgment_row.calls[i].parse_error
            /\ ~IsZero(j_item.judgment_row.calls[i].score)

SingleJudged == ItemReturned /\ j_call # NoCallOutcome

FracEq(a, b) == a.num * b.den = b.num * a.den

RubricAggregated ==
    /\ ItemReturned
    /\ j_item.judgment_row.judge_name = "rubric_multi_judge"
    /\ ~j_item.judgment_row.parse_error

\* the sum of weight * score over the call details of a rubric row
RECURSIVE WeightedPoints(_, _, _)
WeightedPoints(rubric, calls, i) ==
    IF i = 0
    THEN Frac(0, 1)
    ELSE LET rest == WeightedPoints(rubric, calls, i - 1)
             s == calls[i].score
         IN  Frac(rest.num * s.den + rubric[i] * s.num * rest.den, rest.den * s.den)

RECURSIVE NegativeWeights(_, _)
NegativeWeights(rubric, i) ==
    IF i = 0 THEN 0
    ELSE NegativeWeights(rubric, i - 1) + (IF rubric[i] < 0 THEN rubric[i] ELSE 0)

RECURSIVE PositiveWeights(_, _)
PositiveWeights(rubric, i) ==
    IF i = 0 THEN 0
    ELSE PositiveWeights(rubric, i - 1) + (IF rubric[i] > 0 THEN rubric[i] ELSE 0)

\* (sum w_i s_i - sum min(0, w_i)) / (sum max(0, w_i) - sum min(0, w_i))
NormalizedPoints(rubric, calls) ==
    LET n == Len(rubric)
        points == WeightedPoints(rubric, calls, n)
        lo == NegativeWeights(rubric, n)
        hi == PositiveWeights(rubric, n)
    IN  Frac(points.num - lo * points.den, (hi - lo) * points.den)

Met(call) == FracEq(call.score, Frac(1, 1))
Unmet(call) == IsZero(call.score)

\* C22: weighted rubric aggregation.  When max_raw > min_raw and at least one
\* criterion is matched, the aggregate score is
\* clamp((sum w_i s_i - sum min(0, w_i)) / (sum max(0, w_i) - sum min(0, w_i)), 0, 1)
\* and pass = score >= threshold; weights 2 (met) and 1 (unmet) give 2/3,
\* weights 8 and -5 both met give 8/13, weight 8 met and -5 unmet give 1.
C22_WeightedAggregation ==
    (/\ RubricAggregated
     /\ PositiveWeights(j_example.rubric, Len(j_example.rubric))
            > NegativeWeights(j_example.rubric, Len(j_example.rubric))) =>
        LET row == j_item.judgment_row
            expected == NormalizedPoints(j_example.rubric, row.calls)
        IN  /\ Len(row.calls) = Len(j_example.rubric)
            /\ Geq(row.score, Frac(0, 1))
            /\ Geq(Frac(1, 1), row.score)
            /\ IF Geq(expected, Frac(1, 1)) THEN FracEq(row.score, Frac(1, 1))
               ELSE IF Geq(Frac(0, 1), expected) THEN IsZero(row.score)
               ELSE FracEq(row.score, expected)
            /\ row.pass <=> Geq(row.score, j_threshold)
            /\ (j_example.rubric = <<2, 1>> /\ Met(row.calls[1]) /\ Unmet(row.calls[2])) =>
                  FracEq(row.score, Frac(2, 3))
            /\ (j_example.rubric = <<8, 0 - 5>> /\ Met(row.calls[1]) /\ Met(row.calls[2])) =>
                  FracEq(row.score, Frac(8, 13))
            /\ (j_example.rubric = <<8, 0 - 5>> /\ Met(row.calls[1]) /\ Unmet(row.calls[2])) =>
                  FracEq(row.score, Frac(1, 1))

\* Weights 8 and -5, both criteria met: 8/13, below the threshold 0.7
C22_Witness ==
    /\ RubricAggregated
    /\ j_example.rubric = <<8, 0 - 5>>
    /\ j_threshold = Frac(7, 10)
    /\ Met(j_item.judgment_row.calls[1])
    /\ Met(j_item.judgment_row.calls[2])
    /\ FracEq(j_item.judgment_row.score, Frac(8, 13))
    /\ ~j_item.judgment_row.pass

\* judging.py:394-395: the score of the aggregate before the weighting
UnweightedAggregateScore == Frac(0, 1)

NoPositiveWeight == \A i \in 1..Len(j_example.rubric) : j_example.rubric[i] <= 0
AllWeightsZero == \A i \in 1..Len(j_example.rubric) : j_example.rubric[i] = 0

DegenerateWeights ==
    PositiveWeights(j_example.rubric, Len(j_example.rubric))
        <= NegativeWeights(j_example.rubric, Len(j_example.rubric))

\* C23 as stated: whenever max_raw <= min_raw, which includes every rubric
\* whose criterion weights are all <= 0, no normalization is applied and the
\* unweighted score is returned unchanged.
C23_AllNonPositiveWeightsUnchanged ==
    (RubricAggregated /\ (DegenerateWeights \/ NoPositiveWeight)) =>
        FracEq(j_item.judgment_row.score, UnweightedAggregateScore)

\* C23 as amended: max_raw <= min_raw holds exactly when every criterion
\* weight is 0; then no normalization is applied and the unweighted score is
\* returned unchanged.  A rubric whose weights are all <= 0 with a negative one
\* has max_raw = 0 > min_raw and is normalized like any other.
C23_DegenerateWeights ==
    RubricAggregated =>
        /\ DegenerateWeights <=> AllWeightsZero
        /\ DegenerateWeights =>
              FracEq(j_item.judgment_row.score, UnweightedAggregateScore)
        /\ (NoPositiveWeight /\ ~AllWeightsZero) =>
              FracEq(j_item.judgment_row.score,
                     NormalizedPoints(j_example.rubric, j_item.judgment_row.calls))

\* Two criteria of weight 0, both met: the aggregate keeps the score 0
C23_Witness ==
    /\ RubricAggregated
    /\ j_example.rubric = <<0, 0>>
    /\ Met(j_item.judgment_row.calls[1])
    /\ Met(j_item.judgment_row.calls[2])
    /\ IsZero(j_item.judgment_row.score)

SingleJudgeRow ==
    /\ SingleJudged
    /\ j_item.judgment_row.judge_name = "primary_judge"
    /\ ~j_item.judgment_row.parse_error

JudgeGavePass == j_call.text.pass # "absent"

PassRecomputedByPolicy == j_policy = POLICY_LEXAM_OQ /\ j_example.judge_mode = "reference"

\* C24 as stated: every judgment row of the single free-form judge without
\* parse_error has pass = (score >= judge_pass_threshold), whatever pass value
\* the judge returned in its JSON.
C24_PassIsScoreAtLeastThreshold ==
    SingleJudgeRow =>
        (j_item.judgment_row.pass <=> Geq(j_item.judgment_row.score, j_threshold))

\* C24 as amended: pass = (score >= judge_pass_threshold) when the judge's
\* JSON carries no boolean pass or the example's policy handler recomputes
\* the label (lexam_oq_v1 on a reference example); otherwise pass is the
\* boolean the judge returned.
C24_PassFromJudgeOrThreshold ==
    SingleJudgeRow =>
        IF JudgeGavePass /\ ~PassRecomputedByPolicy
        THEN j_item.judgment_row.pass <=> (j_call.text.pass = "true")
        ELSE j_item.judgment_row.pass <=> Geq(j_item.judgment_row.score, j_threshold)

\* The judge returned pass = false with score 1 on a lexam_oq_v1 reference
\* example: the row passes
C24_Witness ==
    /\ SingleJudgeRow
    /\ PassRecomputedByPolicy
    /\ j_threshold = Frac(7, 10)
    /\ j_call.text = JudgeText("score", Frac(1, 1), "false")
    /\ j_item.judgment_row.pass

\* ======================================================================
\* Properties of the reconciliation (specification SpecReconcile)
\* ======================================================================

Merged == m_pc = "written"

RowKeys(rows) == {row_key(rows[i]) : i \in 1..Len(rows)}

\* rows has one row per key of base and patch, ascending by key, the patch
\* row where the patch has the key and the base row elsewhere
Overlaid(rows, base_rows, patch_rows) ==
    /\ RowKeys(rows) = RowKeys(base_rows) \cup RowKeys(patch_rows)
    /\ Len(rows) = Cardinality(RowKeys(base_rows) \cup RowKeys(patch_rows))
    /\ \A i \in 1..Len(rows) : \A k \in 1..Len(rows) :
            i < k => KeyLess(row_key(rows[i]), row_key(rows[k]))
    /\ \A i \in 1..Len(rows) :
            IF row_key(rows[i]) \in RowKeys(patch_rows)
            THEN rows[i] \in SeqToSet(patch_rows)
            ELSE rows[i] \in SeqToSet(base_rows)

\* C25: overlay_rows(base, patch) returns exactly one row per distinct
\* composite key (dataset, example_id, candidate_name) of base and patch,
\* sorted ascending by that key; for a key present in both the row is the
\* patch row; the replaced count is the number of keys present in both.
C25_OverlayRows ==
    Merged =>
        /\ Overlaid(m_out.responses, m_base.responses, m_patch.responses)
        /\ Overlaid(m_out.judgments, m_base.judgments, m_patch.judgments)
        /\ m_out.replaced_responses =
              Cardinality(RowKeys(m_base.responses) \cap RowKeys(m_patch.responses))
        /\ m_out.replaced_judgments =
              Cardinality(RowKeys(m_base.judgments) \cap RowKeys(m_patch.judgments))

\* The base has two rows, the patch replaces one of them and adds a third,
\* and the run order of the rows is not the key order
C25_Witness ==
    /\ Merged
    /\ Len(m_base.responses) = 2
    /\ Len(m_patch.responses) = 2
    /\ m_out.replaced_responses = 1
    /\ Len(m_out.responses) = 3
    /\ \E i \in 1..Len(m_base.responses) : \E k \in 1..Len(m_base.responses) :
            i < k /\ KeyLess(row_key(m_base.responses[k]), row_key(m_base.responses[i]))

ExpectedPairs == {<<dataset_of(e), e, c>> : e \in Examples, c \in Candidates}

MissingResponses == ExpectedPairs \ RowKeys(m_out.responses)
MissingJudgments == ExpectedPairs \ RowKeys(m_out.judgments)

ItemsOf(stage, key) ==
    {i \in 1..Len(m_out.failed_items) :
        /\ m_out.failed_items[i].stage = stage
        /\ m_out.failed_items[i].dataset = key[1]
        /\ m_out.failed_items[i].example_id = key[2]
        /\ m_out.failed_items[i].candidate_name = key[3]}

\* C26: with the expected pairs being the base run's examples times its
\* candidates, the merged run_status is 'degraded' if and only if some
\* expected pair has no response row or no judgment row after the overlay,
\* otherwise 'completed'; failed_items holds exactly one item of stage
\* 'response_missing_after_merge' per pair lacking a response, exactly one of
\* stage 'judge_missing_after_merge' per pair lacking a judgment, and nothing else.
C26_DegradedIffMissing ==
    Merged =>
        /\ m_out.run_status \in {"degraded", "completed"}
        /\ (m_out.run_status = "degraded")
              <=> (MissingResponses # {} \/ MissingJudgments # {})
        /\ \A key \in ExpectedPairs :
              /\ Cardinality(ItemsOf(RESPONSE_MISSING, key))
                    = (IF key \in MissingResponses THEN 1 ELSE 0)
              /\ Cardinality(ItemsOf(JUDGE_MISSING, key))
                    = (IF key \in MissingJudgments THEN 1 ELSE 0)
        /\ Len(m_out.failed_items)
              = Cardinality(MissingResponses) + Cardinality(MissingJudgments)
        /\ m_out.num_failures = Len(m_out.failed_items)

\* After the overlay one pair has a response but no judgment and another pair
\* has neither, although the patch added rows
C26_Witness ==
    /\ Merged
    /\ m_out.run_status = "degraded"
    /\ m_patch.responses # <<>>
    /\ MissingResponses # {}
    /\ MissingJudgments \ MissingResponses # {}

\* ======================================================================
\* Properties of merge_run_outputs on run directories (SpecMergeDirs)
\* ======================================================================

\* what one call leaves of its inputs, and the trace it writes
InputsUnchangedAndTraceConcatenated ==
    /\ d_runs'[d_args.base] = d_runs[d_args.base]
    /\ d_runs'[d_args.backfill] = d_runs[d_args.backfill]
    /\ d_runs'[d_args.out].trace = d_runs[d_args.base].trace \o d_runs[d_args.backfill].trace

\* C40: the reconciler only reads its inputs.  For every choice of base,
\* backfill and output run directories accepted by merge_run_outputs, all
\* artifact files of the finalized base run and of the backfill run are
\* unchanged afterwards, and the merged trace is the base trace followed by
\* the backfill trace with no row dropped or deduplicated.
C40_ReconcilerOnlyReadsInputs ==
    [][MergeIntoRunDirectory => InputsUnchangedAndTraceConcatenated]_vars

\* the same for an output directory that is neither of the two inputs
MergeIntoOtherDirectoryOnlyReads ==
    [][(MergeIntoRunDirectory /\ d_args.out \notin {d_args.base, d_args.backfill})
          => InputsUnchangedAndTraceConcatenated]_vars

\* ======================================================================
\* Properties of the files of one cache key (specification SpecCacheFiles)
\* ======================================================================

Entry == c_dir[path_for_key(FILE_KEY)]

SetUnderWay == c_set.pc \in {"writing", "closed", "crashed"}

\* C27: cache writes are atomic.  At every step of a set(key, value), also
\* when the process dies inside it and whatever a concurrent get(key) does,
\* the entry file of the key is absent, holds the complete previous value or
\* holds the complete new value; no get observes a partially written payload.
C27_AtomicWrites ==
    /\ Entry.state \in {"absent", "json"}
    /\ Entry.state = "json" => \E v \in SetValues : Entry = JsonFile(v)
    /\ SetUnderWay => Entry \in {c_set.old, JsonFile(c_set.value)}
    /\ ~c_get.undecodable
    /\ (c_get.returned /\ c_get.result.found) => c_get.result.value \in SetValues

\* The writer died with half of the new payload written while the entry still
\* holds the previous value, and a get that ran meanwhile returned that value
C27_Witness ==
    /\ c_set.pc = "crashed"
    /\ c_set.written > 0
    /\ c_set.written < Len(json_dump(c_set.value))
    /\ c_dir[tmp_path_for_key(FILE_KEY)].state = "corrupt"
    /\ Entry = c_set.old
    /\ Entry.state = "json"
    /\ Entry # JsonFile(c_set.value)
    /\ c_get.returned
    /\ c_get.result.found
    /\ c_get.result.value = json_load(c_set.old.doc)

LastOp == IF c_hist.ops = <<>> THEN "none" ELSE c_hist.ops[Len(c_hist.ops)]

\* a get that started after a set followed by a delete and ran with no set
\* or delete beside it
GotAfterSetDelete ==
    /\ c_get.returned
    /\ c_get.before = <<"set", "delete">>
    /\ ~c_get.dirty

GetEnds == c_get.pc \in {"idle", "open"} /\ c_get' # c_get /\ c_get'.pc = "idle" /\ c_get'.returned

\* C35: a get(key) on an entry that fails to decode returns absent without
\* raising and removes the entry; a get that finds no entry returns absent,
\* and a get on the entry a set wrote returns the value set.
C35_CacheSelfHealing ==
    [][GetEnds =>
          /\ ~c_get'.result.raises
          /\ Entry.state \notin {"absent", "json"} =>
                (~c_get'.result.found /\ Entry' = AbsentFile)
          /\ Entry.state = "absent" => (~c_get'.result.found /\ Entry' = AbsentFile)
          /\ Entry.state = "json" =>
                (c_get'.result.found /\ c_get'.result.value = json_load(Entry.doc))
      ]_vars

\* ======================================================================
\* Properties of two calls with one cache key (SpecSameKey)
\* ======================================================================

BothCallsEnded == \A t \in Callers : w_call[t].pc = "done"

\* the entry of the key is a complete payload that one of the calls wrote
EntryIsOnePayload ==
    LET entry == FilesByName(w_names, w_inodes)[path_for_key(FILE_KEY)] IN
    /\ entry.state = "json"
    /\ \E t \in Callers : ~w_call[t].cache_hit /\ entry.doc = json_dump(w_call[t].payload)

\* C38: two executor calls with the same cache key run concurrently.  For
\* every interleaving both calls complete without a cache-related error, and
\* the cache afterwards holds exactly one complete payload for the key,
\* equal to the payload written by one of the two calls.
C38_SameKeyCallsBothComplete ==
    BothCallsEnded =>
        /\ \A t \in Callers : w_call[t].outcome = "returned"
        /\ EntryIsOnePayload

\* the same for the runs in which one call found the entry of the other
SameKeyHitCompletes ==
    (BothCallsEnded /\ \E t \in Callers : w_call[t].cache_hit) =>
        /\ \A t \in Callers : w_call[t].outcome = "returned"
        /\ EntryIsOnePayload

\* ======================================================================
\* Properties of the judge concurrency budget (specification SpecJudgeBudget)
\* ======================================================================
CallsInFlight ==
    Cardinality(UNION {{<<di, idx>> : idx \in q_calling[di]} : di \in DisplayIndexes})

\* C32: for every judge_workers >= 1 and every number of items, item_workers
\* and criterion_workers are at least 1 and their product is at most
\* judge_workers, and the judge calls in flight never number more than
\* judge_workers.
C32_JudgeConcurrencyBudget ==
    /\ item_workers >= 1
    /\ criterion_workers >= 1
    /\ item_workers * criterion_workers <= judge_workers
    /\ CallsInFlight <= judge_workers

\* Two items judged at once, each with two criterion calls in flight: the
\* whole budget of four is in use
C32_Witness ==
    /\ judge_workers = 4
    /\ item_workers = 2
    /\ criterion_workers = 2
    /\ CallsInFlight = 4

\* ======================================================================
\* Properties of apply_weighted_rubric_score (specification SpecAggregate)
\* ======================================================================
MatchedCriteria ==
    {idx \in 1..Len(a_example.rubric) : criterion_id(idx) \in DOMAIN a_parsed.criteria}

NothingToAggregate ==
    \/ Len(a_example.rubric) = 0
    \/ DOMAIN a_parsed.criteria = {}
    \/ MatchedCriteria = {}

\* C34: when no criterion of the rubric matches a key of the returned
\* criteria, or the rubric or the returned criteria are empty,
\* apply_weighted_rubric_score returns the parsed result unchanged: same
\* score, same pass flag, same criteria, no aggregation trace.
C34_NoMatchPassesThrough ==
    (a_pc = "returned" /\ NothingToAggregate) =>
        /\ a_out.score = a_parsed.score
        /\ a_out.passed = a_parsed.passed
        /\ a_out.raw = NoAggregation
        /\ a_out = a_parsed

\* A rubric of two weighted criteria and a judge that returned scores under
\* keys that are aliases of no criterion: the result came back as it was
C34_Witness ==
    /\ a_pc = "returned"
    /\ a_example.judge_mode = "rubric"
    /\ Len(a_example.rubric) = 2
    /\ DOMAIN a_parsed.criteria = {OVERALL, UNKNOWN_KEY}
    /\ a_parsed.score = Frac(1, 1)
    /\ ~a_parsed.passed
    /\ a_out = a_parsed

====
